---- MODULE Spec2Model ----
(***************************************************************************)
(* Authentication and quota pipeline of the MCP server: the middleware     *)
(* authenticateToken, authenticateApiKey and userRateLimit, the            *)
(* CacheService they call (Redis) and the users / audit tables they query. *)
(*                                                                         *)
(* A request is a record; one step of a request is the code that runs      *)
(* between two awaits.  Values the JavaScript code handles are tagged      *)
(* tuples (<<"num", 3>>, <<"str", "a">>, <<"null">>, <<"undef">>), strings *)
(* held in Redis are sequences of character tokens.                        *)
(***************************************************************************)
EXTENDS Integers, Sequences, FiniteSets

VARIABLES
    now,          \* wall clock, seconds since the epoch of the model
    users,        \* table users: id -> row
    audit,        \* the <<user_id, action>> pairs the audit table has rows for
    autoIncrement, \* AUTO_INCREMENT of users.id: the id the next INSERT gets
    issued,       \* login / register responses, with the row they came from
    redis,        \* the Redis server: key -> [val, exp]
    redisUp,      \* whether the Redis server answers
    client,       \* CacheService.client: "null" or "client"
    isConnected,  \* CacheService.isConnected
    database,     \* DatabaseService: [connection, isConnected]
    procs,        \* the node processes running dist/server.js: pid -> record
    req,          \* the requests in flight: slot -> request record
    seen,         \* per (userId, hour): requests that entered userRateLimit
    dirty         \* buckets in which a cache failure was observed

vars == <<now, users, audit, autoIncrement, issued, redis, redisUp, client,
          isConnected, database, procs, req, seen, dirty>>

----------------------------------------------------------------------------
(* Bounds of the model *)

NumAccounts == 2      \* accounts in the users table
MaxQuota == 2         \* largest rate_limit_per_hour drawn
MaxPerBucket == 3     \* requests of one account admitted to one hour bucket
MaxHours == 1         \* the clock of the quota runs stops after this many hours
MaxDays == 1          \* the clock of the token runs stops after this many days
MaxTokens == 1        \* session tokens issued in one behaviour
MaxWindows == 2       \* the clock of the identity cache runs stops after this many TTLs
MaxRotations == 1     \* times the API key of one account is regenerated
NumSlots == 2         \* requests in flight at once
MaxProcesses == 5     \* node processes started in one behaviour

(* Program constants *)

DefaultRateLimit == 100
RegisterRateLimit == 100
RetryAfter == 3600
HealthCheckTtl == 10
CounterTtl == 3600
IdentityTtl == 300
TokenLifetime == 86400
SecondsPerHour == 3600

----------------------------------------------------------------------------
(* JavaScript values *)

Num(n) == <<"num", n>>
Str(s) == <<"str", s>>
JsNull == <<"null">>
Undefined == <<"undef">>

None == <<>>
Some(x) == <<x>>

\* ToBoolean of a value: null, undefined, 0 and "" are falsy
Falsy(v) == v \in {JsNull, Undefined, Num(0), Str("")}

\* a || b
OrElse(a, b) == IF Falsy(a) THEN b ELSE a

\* obj.name: undefined when the property is missing
Field(obj, name) == IF name \in DOMAIN obj THEN obj[name] ELSE Undefined

----------------------------------------------------------------------------
(* Strings: decimal rendering and parsing of the counter *)

DigitChar == <<"0", "1", "2", "3", "4", "5", "6", "7", "8", "9">>

IsDigit(c) == \E d \in 1..10 : DigitChar[d] = c

DigitVal(c) == (CHOOSE d \in 1..10 : DigitChar[d] = c) - 1

\* NaN is kept apart from every count
NaN == -1

RECURSIVE Digits(_)
Digits(n) ==
    IF n < 10 THEN <<DigitChar[n + 1]>>
    ELSE Digits(n \div 10) \o <<DigitChar[(n % 10) + 1]>>

\* (n).toString()
NumberToString(n) == IF n = NaN THEN <<"N", "a", "N">> ELSE Digits(n)

RECURSIVE ParseDigits(_, _)
ParseDigits(s, acc) ==
    IF s = <<>> \/ ~IsDigit(Head(s)) THEN acc
    ELSE ParseDigits(Tail(s), acc * 10 + DigitVal(Head(s)))

\* parseInt(s, 10): the leading digits, NaN when there are none
ParseInt(s) ==
    IF s = <<>> \/ ~IsDigit(Head(s)) THEN NaN ELSE ParseDigits(s, 0)

\* a >= b and a + 1 on numbers that may be NaN
Ge(a, b) == a # NaN /\ b # NaN /\ a >= b

\* variant: the count goes up by two
Inc_ByTwo(a) == IF a = NaN THEN NaN ELSE a + 2

Inc(a) == IF a = NaN THEN NaN ELSE a + 1

----------------------------------------------------------------------------
(* JSON.stringify / JSON.parse of a user row *)

\* the columns every identity SELECT names, in order
SelectColumns == <<"id", "username", "email", "api_key", "rate_limit_per_hour">>

EmptyObject == [n \in {} |-> Undefined]

SetField(obj, name, v) ==
    [n \in DOMAIN obj \cup {name} |-> IF n = name THEN v ELSE obj[n]]

JsonValue(v) ==
    CASE v[1] = "num" -> NumberToString(v[2])
      [] v[1] = "str" -> <<"\"", v[2], "\"">>
      [] OTHER -> <<"null">>

RECURSIVE JsonMembers(_, _, _)
JsonMembers(obj, names, first) ==
    IF names = <<>> THEN <<>>
    ELSE LET n == Head(names)
             v == Field(obj, n)
         IN  IF v = Undefined
             THEN JsonMembers(obj, Tail(names), first)
             ELSE (IF first THEN <<>> ELSE <<",">>)
                  \o <<"\"", n, "\"", ":">> \o JsonValue(v)
                  \o JsonMembers(obj, Tail(names), FALSE)

\* variant: the last property is left out
JsonStringify_DropsLast(obj, names) ==
    <<"{">> \o JsonMembers(obj, SubSeq(names, 1, Len(names) - 1), TRUE) \o <<"}">>

\* JSON.stringify(obj) of an object with the given own properties
JsonStringify(obj, names) ==
    <<"{">> \o JsonMembers(obj, names, TRUE) \o <<"}">>

ParseFail == [ok |-> FALSE, kind |-> "none", obj |-> EmptyObject,
              prim |-> Undefined, next |-> 0]

RECURSIVE DigitRunEnd(_, _)
DigitRunEnd(s, i) ==
    IF i <= Len(s) /\ IsDigit(s[i]) THEN DigitRunEnd(s, i + 1) ELSE i

\* one JSON value starting at token i
ParseValue(s, i) ==
    IF i > Len(s) THEN ParseFail
    ELSE IF s[i] = "\""
    THEN IF i + 2 <= Len(s) /\ s[i + 2] = "\""
         THEN [ParseFail EXCEPT !.ok = TRUE, !.kind = "prim",
                                !.prim = Str(s[i + 1]), !.next = i + 3]
         ELSE ParseFail
    ELSE IF s[i] = "null"
    THEN [ParseFail EXCEPT !.ok = TRUE, !.kind = "prim", !.prim = JsNull,
                           !.next = i + 1]
    ELSE IF IsDigit(s[i])
    THEN LET j == DigitRunEnd(s, i)
         IN  [ParseFail EXCEPT !.ok = TRUE, !.kind = "prim",
                 !.prim = Num(ParseDigits(SubSeq(s, i, j - 1), 0)),
                 !.next = j]
    ELSE ParseFail

RECURSIVE ParseMembers(_, _, _)
ParseMembers(s, i, acc) ==
    IF i + 3 <= Len(s) /\ s[i] = "\"" /\ s[i + 2] = "\"" /\ s[i + 3] = ":"
    THEN LET v == ParseValue(s, i + 4)
         IN  IF ~v.ok THEN ParseFail
             ELSE LET acc2 == SetField(acc, s[i + 1], v.prim)
                  IN  IF v.next = Len(s) /\ s[v.next] = "}"
                      THEN [ParseFail EXCEPT !.ok = TRUE, !.kind = "object",
                                             !.obj = acc2, !.next = v.next + 1]
                      ELSE IF v.next < Len(s) /\ s[v.next] = ","
                      THEN ParseMembers(s, v.next + 1, acc2)
                      ELSE ParseFail
    ELSE ParseFail

\* JSON.parse(s): an object, a primitive, or a SyntaxError (ok = FALSE)
JsonParse(s) ==
    IF s = <<>> THEN ParseFail
    ELSE IF s[1] = "{"
    THEN IF Len(s) = 2 /\ s[2] = "}"
         THEN [ParseFail EXCEPT !.ok = TRUE, !.kind = "object", !.next = 3]
         ELSE ParseMembers(s, 2, EmptyObject)
    ELSE LET v == ParseValue(s, 1)
         IN  IF v.ok /\ v.next = Len(s) + 1 THEN v ELSE ParseFail

\* the identity object the middleware attaches as req.user
Identity(user) ==
    [userId |-> Field(user, "id"),
     email |-> Field(user, "email"),
     username |-> Field(user, "username"),
     apiKey |-> Field(user, "api_key"),
     rateLimitPerHour |-> Field(user, "rate_limit_per_hour")]

\* SELECT id, username, email, api_key, rate_limit_per_hour of a users row
SelectIdentity(row) == [n \in {SelectColumns[i] : i \in 1..5} |-> row[n]]

----------------------------------------------------------------------------
(* Session tokens (jsonwebtoken) *)

NoToken == [form |-> "absent", sig |-> "none", userId |-> 0, iat |-> 0, exp |-> 0]

\* jwt.sign({userId, email, username}, secret, {expiresIn: "24h"}) at time t
JwtSign(userId, t) ==
    [form |-> "jwt", sig |-> "valid", userId |-> userId, iat |-> t,
     exp |-> t + TokenLifetime]

\* jwt.verify(token, secret) at time t: "ok" or the class of the error thrown
JwtVerify(token, t) ==
    IF token.form # "jwt" THEN "JsonWebTokenError"
    ELSE IF token.sig # "valid" THEN "JsonWebTokenError"
    ELSE IF t >= token.exp THEN "TokenExpiredError"
    ELSE "ok"

\* variant: the subclasses of JsonWebTokenError are not recognised
IsJsonWebTokenError_BaseOnly(e) == e = "JsonWebTokenError"

\* error instanceof jwt.JsonWebTokenError (TokenExpiredError extends it)
IsJsonWebTokenError(e) ==
    e \in {"JsonWebTokenError", "TokenExpiredError", "NotBeforeError"}

----------------------------------------------------------------------------
(* Processes *)

\* a node process running dist/server.js, at the top of Server.start(), with
\* its parent (0: started by the operating system) and its MCP_MODE
NodeProcess(parent, mcpMode) ==
    [pc |-> "database", parent |-> parent, MCP_MODE |-> mcpMode]

\* one server, started without MCP_MODE, listening
ServerOnly == <<[NodeProcess(0, "unset") EXCEPT !.pc = "listening"]>>

----------------------------------------------------------------------------
(* Requests *)

Slots == 1..NumSlots

NoOp == [kind |-> "none", key |-> <<>>, val |-> <<>>, ttl |-> 0,
         sql |-> "none", param |-> Undefined]

\* a request body without the fields of registerSchema
NoBody == [username |-> Undefined, email |-> Undefined]

\* const health = {status: "healthy", ..., services: {database: "unknown",
\* cache: "unknown"}}
InitialHealth == [status |-> "healthy", database |-> "unknown", cache |-> "unknown"]

\* a request before any middleware has run
FreshRequest(chain, token, apiKey, user) ==
    [mw |-> "none", chain |-> chain, pc |-> "idle", cont |-> "none",
     token |-> token, apiKey |-> apiKey, user |-> user,
     res |-> <<>>, nexts |-> <<>>, handled |-> FALSE,
     op |-> NoOp, cacheKey |-> <<>>, currentCount |-> 0, limit |-> Undefined,
     userLocal |-> <<>>, logs |-> 0, ev |-> {}, nth |-> 0, at |-> 0,
     bucket |-> <<0, 0>>, newApiKey |-> Undefined, body |-> NoBody,
     health |-> InitialHealth]

IdleRequest == FreshRequest(<<>>, NoToken, Undefined, None)

\* res.status(status).json({error, message[, retryAfter]}); return
Respond(q, status, message, retryAfter) ==
    [q EXCEPT !.res = Append(@, [status |-> status, message |-> message,
                                 retryAfter |-> retryAfter]),
              !.pc = "done", !.op = NoOp]

\* logger.error(...)
Log(q) == [q EXCEPT !.logs = @ + 1]

\* ghost: an event of the current middleware
Note(q, e) == [q EXCEPT !.ev = @ \cup {<<q.mw, e>>}]

\* await cache.get(key) / cache.set(key, val, ttl), continuing at cont
CallCacheGet(q, key, cont) ==
    [q EXCEPT !.pc = "cache_call", !.cont = cont,
              !.op = [NoOp EXCEPT !.kind = "get", !.key = key]]

CallCacheSet(q, key, val, ttl, cont) ==
    [q EXCEPT !.pc = "cache_call", !.cont = cont,
              !.op = [NoOp EXCEPT !.kind = "set", !.key = key, !.val = val,
                                  !.ttl = ttl]]

\* await cache.del(key) / cache.exists(key), continuing at cont
CallCacheDel(q, key, cont) ==
    [q EXCEPT !.pc = "cache_call", !.cont = cont,
              !.op = [NoOp EXCEPT !.kind = "del", !.key = key]]

CallCacheExists(q, key, cont) ==
    [q EXCEPT !.pc = "cache_call", !.cont = cont,
              !.op = [NoOp EXCEPT !.kind = "exists", !.key = key]]

\* await database.query(sql, [param]), continuing at cont
CallQuery(q, sql, param, cont) ==
    [q EXCEPT !.pc = "db", !.cont = cont,
              !.op = [NoOp EXCEPT !.kind = "query", !.sql = sql,
                                  !.param = param]]

\* `${v}` in a template string
TemplateString(v) ==
    CASE v[1] = "num" -> NumberToString(v[2])
      [] v[1] = "str" -> <<v[2]>>
      [] v[1] = "null" -> <<"null">>
      [] OTHER -> <<"undefined">>

\* new Date().toISOString().slice(0, 13): the hour of the wall clock
CurrentHour(t) == t \div SecondsPerHour

\* variant: the key leaves the hour out
RateLimitKey_NoHour(userId, t) == <<"rate_limit", TemplateString(userId), 0>>

\* variant: the key leaves the account out
RateLimitKey_NoUser(userId, t) == <<"rate_limit", <<"*">>, CurrentHour(t)>>

\* `rate_limit:${userId}:${currentHour}`
RateLimitKey(userId, t) == <<"rate_limit", TemplateString(userId), CurrentHour(t)>>

\* `api_key:${apiKey}`
ApiKeyKey(apiKey) == <<"api_key", TemplateString(apiKey)>>

RECURSIVE Enter(_, _)

\* next(): the following middleware or handler runs up to its first await
CallNext(q, t) ==
    LET q1 == [q EXCEPT !.nexts = Append(@, q.mw), !.op = NoOp]
    IN  IF q.chain = <<>>
        THEN [q1 EXCEPT !.pc = "done"]
        ELSE Enter([q1 EXCEPT !.mw = Head(q.chain), !.chain = Tail(q.chain)], t)

----------------------------------------------------------------------------
(* userRateLimit *)

\* variant: the comparison is strict
CountReachesLimit_Strict(count, limit) ==
    limit[1] = "num" /\ count # NaN /\ count > limit[2]

\* currentCount >= rateLimitPerHour
CountReachesLimit(count, limit) == limit[1] = "num" /\ Ge(count, limit[2])

\* up to the first await: the req.user check, the key, cache.get(cacheKey)
EnterUserRateLimit(q, t) ==
    IF q.user = None
    THEN Respond(q, 401, <<"Authentication required">>, None)
    ELSE LET userId == q.user[1].userId
             rateLimitPerHour ==
                 OrElse(q.user[1].rateLimitPerHour, Num(DefaultRateLimit))
             cacheKey == RateLimitKey(userId, t)
         IN  CallCacheGet([q EXCEPT !.cacheKey = cacheKey,
                                    !.limit = rateLimitPerHour, !.at = t],
                          cacheKey, "rl_count")

\* variant: the count read is written back as it is
RateLimitDecide_KeepsCount(q, ret) ==
    LET currentCountStr == IF ret = None \/ ret[1] = <<>> THEN <<"0">> ELSE ret[1]
        currentCount == ParseInt(currentCountStr)
        q1 == [q EXCEPT !.currentCount = currentCount]
    IN  IF CountReachesLimit(currentCount, q.limit)
        THEN Respond(q1, 429,
                     <<"Rate limit exceeded. Maximum">> \o TemplateString(q.limit)
                         \o <<"requests per hour.">>,
                     Some(RetryAfter))
        ELSE CallCacheSet(q1, q.cacheKey, NumberToString(currentCount),
                          CounterTtl, "rl_written")

\* variant: the count is never compared with the limit
RateLimitDecide_NeverRejects(q, ret) ==
    LET currentCountStr == IF ret = None \/ ret[1] = <<>> THEN <<"0">> ELSE ret[1]
        currentCount == ParseInt(currentCountStr)
    IN  CallCacheSet([q EXCEPT !.currentCount = currentCount], q.cacheKey,
                     NumberToString(Inc(currentCount)), CounterTtl, "rl_written")

\* variant: the 429 answer is followed by next()
RateLimitDecide_RejectAndNext(q, ret) ==
    LET currentCountStr == IF ret = None \/ ret[1] = <<>> THEN <<"0">> ELSE ret[1]
        currentCount == ParseInt(currentCountStr)
        q1 == [q EXCEPT !.currentCount = currentCount]
    IN  IF CountReachesLimit(currentCount, q.limit)
        THEN CallNext(Respond(q1, 429,
                              <<"Rate limit exceeded. Maximum">>
                                  \o TemplateString(q.limit)
                                  \o <<"requests per hour.">>,
                              Some(RetryAfter)), q.at)
        ELSE CallCacheSet(q1, q.cacheKey, NumberToString(Inc(currentCount)),
                          CounterTtl, "rl_written")

\* variant: the counter is written with half the expiry
RateLimitDecide_HalfTtl(q, ret) ==
    LET currentCountStr == IF ret = None \/ ret[1] = <<>> THEN <<"0">> ELSE ret[1]
        currentCount == ParseInt(currentCountStr)
        q1 == [q EXCEPT !.currentCount = currentCount]
    IN  IF CountReachesLimit(currentCount, q.limit)
        THEN Respond(q1, 429,
                     <<"Rate limit exceeded. Maximum">> \o TemplateString(q.limit)
                         \o <<"requests per hour.">>,
                     Some(RetryAfter))
        ELSE CallCacheSet(q1, q.cacheKey, NumberToString(Inc(currentCount)),
                          CounterTtl \div 2, "rl_written")

\* after cache.get: parse the count, reject with 429 or write count + 1
RateLimitDecide(q, ret) ==
    LET currentCountStr == IF ret = None \/ ret[1] = <<>> THEN <<"0">> ELSE ret[1]
        currentCount == ParseInt(currentCountStr)
        q1 == [q EXCEPT !.currentCount = currentCount]
    IN  IF CountReachesLimit(currentCount, q.limit)
        THEN Respond(q1, 429,
                     <<"Rate limit exceeded. Maximum">> \o TemplateString(q.limit)
                         \o <<"requests per hour.">>,
                     Some(RetryAfter))
        ELSE CallCacheSet(q1, q.cacheKey, NumberToString(Inc(currentCount)),
                          CounterTtl, "rl_written")

\* after cache.set: the audit INSERT
RateLimitAudit(q) == CallQuery(q, "audit", q.user[1].userId, "rl_audited")

\* variant: the catch block answers 500
RateLimitCatch_Reject(q, t) ==
    Respond(Log(q), 500, <<"Rate limiting failed">>, None)

\* variant: the catch block logs and rethrows, next() is never called
RateLimitCatch_Rethrow(q, t) == [Log(q) EXCEPT !.pc = "done", !.op = NoOp]

\* variant: next() is called in the catch block and once more after it
RateLimitCatch_NextTwice(q, t) ==
    [CallNext(Log(q), t) EXCEPT !.nexts = Append(@, "userRateLimit")]

\* the catch block: log, do not block the request
RateLimitCatch(q, t) == CallNext(Log(q), t)

----------------------------------------------------------------------------
(* authenticateToken *)

\* up to the first await: the header, jwt.verify, the lookup by id
EnterAuthenticateToken(q, t) ==
    IF q.token.form = "absent"
    THEN Respond(q, 401, <<"Access token required">>, None)
    ELSE LET verdict == JwtVerify(q.token, t)
             q1 == [q EXCEPT !.at = t]
         IN  IF verdict # "ok"
             THEN IF IsJsonWebTokenError(verdict)
                  THEN Respond(Note(q1, "jwt_error"), 401, <<"Invalid token">>, None)
                  ELSE Respond(Log(q1), 500, <<"Authentication failed">>, None)
             ELSE CallQuery(q1, "user_by_id", Num(q.token.userId), "at_row")

\* variant: the identity is written to the cache before next()
TokenResolve_Caches(q, rows, t) ==
    IF Len(rows) = 0
    THEN Respond(q, 401, <<"User not found">>, None)
    ELSE CallCacheSet([q EXCEPT !.userLocal = Some(rows[1]),
                                !.cacheKey = ApiKeyKey(rows[1].api_key)],
                      ApiKeyKey(rows[1].api_key),
                      JsonStringify(rows[1], SelectColumns), IdentityTtl, "ak_stored")

\* variant: the quota is the one the account had when the token was issued
TokenResolve_QuotaAtIssue(q, rows, t) ==
    IF Len(rows) = 0
    THEN Respond(q, 401, <<"User not found">>, None)
    ELSE CallNext([q EXCEPT !.user =
                      Some([Identity(rows[1]) EXCEPT
                               !.rateLimitPerHour = Num(RegisterRateLimit)])], t)

\* after the lookup: 401 when no row, else req.user and next()
TokenResolve(q, rows, t) ==
    IF Len(rows) = 0
    THEN Respond(q, 401, <<"User not found">>, None)
    ELSE CallNext([q EXCEPT !.user = Some(Identity(rows[1]))], t)

\* variant: every error is answered like a bad token
TokenCatch_Unauthorized(q) == Respond(q, 401, <<"Invalid token">>, None)

\* the catch block for an error that is no JsonWebTokenError
TokenCatch(q) == Respond(Log(q), 500, <<"Authentication failed">>, None)

----------------------------------------------------------------------------
(* authenticateApiKey *)

\* variant: the cache is read before the header is tested
EnterAuthenticateApiKey_LookupFirst(q, t) ==
    CallCacheGet([q EXCEPT !.cacheKey = ApiKeyKey(q.apiKey), !.at = t],
                 ApiKeyKey(q.apiKey), "ak_cached")

\* up to the first await: the header, cache.get(cacheKey)
EnterAuthenticateApiKey(q, t) ==
    IF Falsy(q.apiKey)
    THEN Respond(q, 401, <<"API key required">>, None)
    ELSE LET cacheKey == ApiKeyKey(q.apiKey)
         IN  CallCacheGet([q EXCEPT !.cacheKey = cacheKey, !.at = t],
                          cacheKey, "ak_cached")

\* req.user = {...}; next()
ApiKeyAttach(q, user, t) ==
    CallNext([q EXCEPT !.user = Some(Identity(user))], t)

\* variant: a value that fails to parse is answered like any other error
ApiKeyCached_ParseErrorThrows(q, ret, t) ==
    LET userStr == IF ret = None THEN <<>> ELSE ret[1]
        parsed == IF userStr = <<>> THEN ParseFail ELSE JsonParse(userStr)
        hit == parsed.ok /\ (parsed.kind = "object" \/ ~Falsy(parsed.prim))
    IN  IF userStr # <<>> /\ ~parsed.ok
        THEN Respond(Log(Note(q, "parse_error")), 500,
                     <<"Authentication failed">>, None)
        ELSE IF hit
        THEN ApiKeyAttach(Note(q, "cache_hit"), parsed.obj, t)
        ELSE CallQuery(q, "user_by_key", q.apiKey, "ak_row")

\* after cache.get: JSON.parse the value; a miss goes to the store
ApiKeyCached(q, ret, t) ==
    LET userStr == IF ret = None THEN <<>> ELSE ret[1]
        parsed == IF userStr = <<>> THEN ParseFail ELSE JsonParse(userStr)
        q1 == IF userStr # <<>> /\ ~parsed.ok THEN Log(Note(q, "parse_error")) ELSE q
        hit == parsed.ok /\ (parsed.kind = "object" \/ ~Falsy(parsed.prim))
    IN  IF hit
        THEN ApiKeyAttach(Note(q1, "cache_hit"), parsed.obj, t)
        ELSE CallQuery(q1, "user_by_key", q.apiKey, "ak_row")

\* variant: an unknown key is passed on without an identity
ApiKeyRow_PassUnknown(q, rows) ==
    IF Len(rows) = 0
    THEN CallNext(q, q.at)
    ELSE CallCacheSet(Note([q EXCEPT !.userLocal = Some(rows[1])], "store_hit"),
                      q.cacheKey, JsonStringify(rows[1], SelectColumns),
                      IdentityTtl, "ak_stored")

\* after the lookup: 401 when no row, else cache.set(cacheKey, JSON, 300)
ApiKeyRow(q, rows) ==
    IF Len(rows) = 0
    THEN Respond(q, 401, <<"Invalid API key">>, None)
    ELSE CallCacheSet(Note([q EXCEPT !.userLocal = Some(rows[1])], "store_hit"),
                      q.cacheKey, JsonStringify(rows[1], SelectColumns),
                      IdentityTtl, "ak_stored")

\* variant: the catch block answers 500 and calls next() as well
ApiKeyCatch_AnswerAndNext(q) ==
    CallNext(Respond(Log(q), 500, <<"Authentication failed">>, None), q.at)

\* the catch block
ApiKeyCatch(q) == Respond(Log(q), 500, <<"Authentication failed">>, None)

----------------------------------------------------------------------------
(* optionalAuth *)

\* authHeader && authHeader.startsWith("Bearer ")
StartsWithBearer(token) == token.form \in {"jwt", "garbage"}

\* up to the first await: the Bearer branch, else the X-API-Key branch, else
\* next(); a jwt.verify error is caught by the inner catch
EnterOptionalAuth(q, t) ==
    LET q1 == [q EXCEPT !.at = t]
    IN  IF StartsWithBearer(q.token)
        THEN IF JwtVerify(q.token, t) # "ok"
             THEN CallNext(Note(q1, "jwt_error"), t)
             ELSE CallQuery(q1, "user_by_id", Num(q.token.userId), "oa_row")
        ELSE IF ~Falsy(q.apiKey)
             THEN CallQuery(q1, "user_by_key", q.apiKey, "oa_row")
             ELSE CallNext(q1, t)

\* after either lookup: req.user when a row came back, then next()
OptionalResolve(q, rows, t) ==
    IF Len(rows) > 0
    THEN CallNext([q EXCEPT !.user = Some(Identity(rows[1]))], t)
    ELSE CallNext(q, t)

\* variant: a failed lookup is answered 401
OptionalCatch_Reject(q, t) == Respond(q, 401, <<"Unauthorized">>, None)

\* the inner catch blocks: continue without authentication
OptionalCatch(q, t) == CallNext(q, t)

----------------------------------------------------------------------------
(* The handler of POST /api-key/regenerate *)

\* up to the first await: userId, newApiKey (q.newApiKey is what randomUUID()
\* gives this request), the UPDATE of the row
EnterRegenerate(q, t) ==
    CallQuery([q EXCEPT !.handled = TRUE, !.at = t],
              "update_api_key", q.user[1].userId, "rg_updated")

\* after the UPDATE: the audit INSERT
RegenerateAudit(q) ==
    CallQuery(q, "audit_regenerated", q.user[1].userId, "rg_audited")

\* after the audit INSERT: res.json({message, apiKey: newApiKey})
RegenerateAnswer(q) ==
    Respond(q, 200, <<"API key regenerated successfully">>, None)

\* the catch block
RegenerateCatch(q) ==
    Respond(Log(q), 500, <<"Failed to regenerate API key">>, None)

----------------------------------------------------------------------------
(* The handler of POST /register *)

\* up to the first await: registerSchema.validate, the SELECT for an existing
\* user
EnterRegister(q, t) ==
    IF q.body.username = Undefined \/ q.body.email = Undefined
    THEN Respond(q, 400, <<"Validation Error">>, None)
    ELSE CallQuery([q EXCEPT !.handled = TRUE, !.at = t], "existing_user",
                   <<q.body.email, q.body.username>>, "reg_checked")

\* after the SELECT: 409 when a row came back, else the password hash, the
\* API key (q.newApiKey is what randomUUID() gives this request), the INSERT
RegisterChecked(q, existingUser) ==
    IF Len(existingUser) > 0
    THEN Respond(q, 409,
                 <<"User with this email or username already exists">>, None)
    ELSE CallQuery(q, "insert_user",
                   <<q.body.username, q.body.email, q.newApiKey>>,
                   "reg_inserted")

\* after the INSERT: userId = result.insertId, the token, the audit INSERT
RegisterInserted(q, result) ==
    CallQuery([q EXCEPT !.userLocal = Some(result.insertId)],
              "audit_registered", Num(result.insertId), "reg_audited")

\* after the audit INSERT: res.status(201).json({message, user, token})
RegisterAnswer(q) == Respond(q, 201, <<"User registered successfully">>, None)

\* the catch block
RegisterCatch(q) == Respond(Log(q), 500, <<"Failed to register user">>, None)

----------------------------------------------------------------------------
(* The handler of GET /api/health/detailed *)

HealthCheckKey == <<"health-check">>

\* up to the first await: the health object, database.query("SELECT 1")
EnterDetailed(q, t) ==
    CallQuery([q EXCEPT !.handled = TRUE, !.at = t, !.health = InitialHealth],
              "select_1", Undefined, "hd_queried")

\* the second try block up to its first await: cache.set("health-check", "ok", 10)
DetailedCheckCache(q) ==
    CallCacheSet(q, HealthCheckKey, <<"ok">>, HealthCheckTtl, "hd_written")

\* after the query: the database is reported connected
DetailedQueried(q) ==
    DetailedCheckCache([q EXCEPT !.health.database = "connected"])

\* after cache.set: cache.get("health-check")
DetailedWritten(q) == CallCacheGet(q, HealthCheckKey, "hd_read")

\* const statusCode = health.status === "healthy" ? 200 : 503;
\* res.status(statusCode).json(health)
DetailedAnswer(q) ==
    Respond(q, IF q.health.status = "healthy" THEN 200 ELSE 503,
            <<q.health.status>>, None)

\* after cache.get: result === "ok" ? "connected" : "disconnected"
DetailedRead(q, result) ==
    DetailedAnswer([q EXCEPT !.health.cache =
                       IF result = Some(<<"ok">>) THEN "connected"
                       ELSE "disconnected"])

\* the catch blocks: of the database check, which goes on to the cache
\* check, and of the cache check, which goes on to the answer
DetailedCatch(q) ==
    IF q.cont = "hd_queried"
    THEN DetailedCheckCache(Log([q EXCEPT !.health.database = "disconnected",
                                          !.health.status = "degraded"]))
    ELSE DetailedAnswer(Log([q EXCEPT !.health.cache = "disconnected",
                                      !.health.status = "degraded"]))

----------------------------------------------------------------------------
(* A caller of one CacheService method *)

CacheMethods == {"get", "set", "del", "exists"}

\* the call: cache.get, cache.set, cache.del or cache.exists of a key
EnterCall(q, t) ==
    LET key == HealthCheckKey
    IN  CASE q.mw = "get" -> CallCacheGet(q, key, "call_returned")
          [] q.mw = "set" ->
                 CallCacheSet(q, key, <<"ok">>, HealthCheckTtl, "call_returned")
          [] q.mw = "del" -> CallCacheDel(q, key, "call_returned")
          [] OTHER -> CallCacheExists(q, key, "call_returned")

\* the promise of the call resolved / rejected
CallReturned(q) == [q EXCEPT !.pc = "done", !.op = NoOp]

----------------------------------------------------------------------------
(* Dispatch *)

\* a middleware or the route handler starts
Enter(q, t) ==
    CASE q.mw = "userRateLimit" -> EnterUserRateLimit(q, t)
      [] q.mw = "authenticateToken" -> EnterAuthenticateToken(q, t)
      [] q.mw = "authenticateApiKey" -> EnterAuthenticateApiKey(q, t)
      [] q.mw = "optionalAuth" -> EnterOptionalAuth(q, t)
      [] q.mw = "regenerate" -> EnterRegenerate(q, t)
      [] q.mw = "register" -> EnterRegister(q, t)
      [] q.mw = "detailed" -> EnterDetailed(q, t)
      [] q.mw \in CacheMethods -> EnterCall(q, t)
      [] OTHER -> [q EXCEPT !.handled = TRUE, !.pc = "done", !.op = NoOp]

\* an awaited call returned ret
Resume(q, ret, t) ==
    CASE q.cont = "rl_count" -> RateLimitDecide(q, ret)
      [] q.cont = "rl_written" -> RateLimitAudit(q)
      [] q.cont = "rl_audited" -> CallNext(q, t)
      [] q.cont = "at_row" -> TokenResolve(q, ret, t)
      [] q.cont = "ak_cached" -> ApiKeyCached(q, ret, t)
      [] q.cont = "ak_row" -> ApiKeyRow(q, ret)
      [] q.cont = "ak_stored" -> ApiKeyAttach(q, q.userLocal[1], t)
      [] q.cont = "oa_row" -> OptionalResolve(q, ret, t)
      [] q.cont = "rg_updated" -> RegenerateAudit(q)
      [] q.cont = "rg_audited" -> RegenerateAnswer(q)
      [] q.cont = "reg_checked" -> RegisterChecked(q, ret)
      [] q.cont = "reg_inserted" -> RegisterInserted(q, ret)
      [] q.cont = "reg_audited" -> RegisterAnswer(q)
      [] q.cont = "hd_queried" -> DetailedQueried(q)
      [] q.cont = "hd_written" -> DetailedWritten(q)
      [] q.cont = "hd_read" -> DetailedRead(q, ret)
      [] q.cont = "call_returned" -> CallReturned(q)
      [] OTHER -> q

\* an awaited call threw: the catch block of the running middleware
Throw(q, t) ==
    CASE q.mw = "userRateLimit" -> RateLimitCatch(q, t)
      [] q.mw = "authenticateToken" -> TokenCatch(q)
      [] q.mw = "authenticateApiKey" -> ApiKeyCatch(q)
      [] q.mw = "optionalAuth" -> OptionalCatch(q, t)
      [] q.mw = "regenerate" -> RegenerateCatch(q)
      [] q.mw = "register" -> RegisterCatch(q)
      [] q.mw = "detailed" -> DetailedCatch(q)
      [] q.mw \in CacheMethods -> CallReturned(q)
      [] OTHER -> q

----------------------------------------------------------------------------
(* The users table and DatabaseService.query *)

AccountIds == 1..NumAccounts

UserNames == <<"alice", "bob", "carol", "dave">>
Emails == <<"alice@x", "bob@x", "carol@x", "dave@x">>
ApiKeys == <<"mcp_1", "mcp_2", "mcp_3", "mcp_4">>

\* the keys randomUUID() gives an account when its key is regenerated
RegeneratedKeys ==
    <<<<"mcp_1a", "mcp_1b", "mcp_1c">>, <<"mcp_2a", "mcp_2b", "mcp_2c">>,
      <<"mcp_3a", "mcp_3b", "mcp_3c">>, <<"mcp_4a", "mcp_4b", "mcp_4c">>>>

\* a row as INSERT INTO users writes it at time 0 (is_active DEFAULT TRUE,
\* updated_at DEFAULT CURRENT_TIMESTAMP ON UPDATE CURRENT_TIMESTAMP)
UserRow(id, apiKey, rateLimitPerHour) ==
    [id |-> Num(id), username |-> Str(UserNames[id]), email |-> Str(Emails[id]),
     api_key |-> apiKey, rate_limit_per_hour |-> rateLimitPerHour,
     is_active |-> TRUE, updated_at |-> 0]

RECURSIVE RowsWhere(_, _, _)
RowsWhere(ids, column, value) ==
    IF ids = {} THEN <<>>
    ELSE LET id == CHOOSE i \in ids : \A j \in ids : i <= j
             rest == RowsWhere(ids \ {id}, column, value)
         IN  IF users[id][column] = value
             THEN <<SelectIdentity(users[id])>> \o rest
             ELSE rest

\* variant: the WHERE clause is ignored
QueryRows_FirstRow(sql, param) == RowsWhere(DOMAIN users, "is_active", TRUE)

\* SELECT id, username, email, api_key, rate_limit_per_hour FROM users WHERE ...
QueryRows(sql, param) ==
    CASE sql = "user_by_id" -> RowsWhere(DOMAIN users, "id", param)
      [] sql = "user_by_key" -> RowsWhere(DOMAIN users, "api_key", param)
      [] OTHER -> <<>>

----------------------------------------------------------------------------
(* Ghost bookkeeping of a step of request r that leaves it as q2 *)

CacheFailures == {"connect_fail", "get_fail", "set_fail"}

Count(f, k) == IF k \in DOMAIN f THEN f[k] ELSE 0

\* the (userId, hour) a request entering userRateLimit at time t belongs to
BucketOf(q, t) == <<q.user[1].userId[2], CurrentHour(t)>>

Commit(r, q2) ==
    LET entered == q2.mw = "userRateLimit" /\ q2.pc = "cache_call" /\ q2.nth = 0
        b == IF entered THEN BucketOf(q2, now) ELSE q2.bucket
        n == Count(seen, b) + 1
        failed == q2.nth > 0
                  /\ \E e \in CacheFailures : <<"userRateLimit", e>> \in q2.ev
    IN  /\ seen' = IF entered THEN SetField(seen, b, n) ELSE seen
        /\ dirty' = IF failed THEN dirty \cup {b} ELSE dirty
        /\ req' = [req EXCEPT ![r] = IF entered
                                     THEN [q2 EXCEPT !.nth = n, !.bucket = b]
                                     ELSE q2]

----------------------------------------------------------------------------
(* CacheService *)

NoExpiry == -1

Live(e, t) == e.exp = NoExpiry \/ t < e.exp

\* what the Redis server answers to GET key
RedisGet(key) ==
    IF key \in DOMAIN redis /\ Live(redis[key], now) THEN Some(redis[key].val)
    ELSE None

\* a command on this.client succeeds
CommandOk == client # "null" /\ isConnected /\ redisUp

\* get / set up to the command: `if (!client || !isConnected) await connect()`,
\* and connect() up to `await this.client.connect()`
CacheEnsure(r) ==
    /\ req[r].pc = "cache_call"
    /\ IF client # "null"
       THEN /\ Commit(r, [req[r] EXCEPT !.pc = "cache_cmd"])
            /\ UNCHANGED client
       ELSE /\ client' = "client"
            /\ Commit(r, [req[r] EXCEPT !.pc = "cache_connect"])
    /\ UNCHANGED <<now, users, audit, autoIncrement, issued, redis, redisUp,
                   isConnected, database, procs>>

\* connect(): client.connect() and ping() succeeded
CacheConnectOk(r) ==
    /\ req[r].pc = "cache_connect"
    /\ redisUp
    /\ isConnected' = TRUE
    /\ Commit(r, [req[r] EXCEPT !.pc = "cache_cmd"])
    /\ UNCHANGED <<now, users, audit, autoIncrement, issued, redis, redisUp, client,
                   database, procs>>

\* connect(): client.connect() failed; logged and rethrown to the middleware
CacheConnectFail(r) ==
    /\ req[r].pc = "cache_connect"
    /\ ~redisUp
    /\ Commit(r, Throw(Log(Note(req[r], "connect_fail")), now))
    /\ UNCHANGED <<now, users, audit, autoIncrement, issued, redis, redisUp, client,
                   isConnected, database, procs>>

\* get(): client.get(key); an error is logged and answered with null
CacheGet(r) ==
    /\ req[r].pc = "cache_cmd"
    /\ req[r].op.kind = "get"
    /\ IF CommandOk
       THEN Commit(r, Resume(req[r], RedisGet(req[r].op.key), now))
       ELSE Commit(r, Resume(Log(Note(req[r], "get_fail")), None, now))
    /\ UNCHANGED <<now, users, audit, autoIncrement, issued, redis, redisUp, client,
                   isConnected, database, procs>>

\* set(): client.setEx(key, ttl, value) or client.set(key, value); an error
\* is logged and rethrown
CacheSet(r) ==
    /\ req[r].pc = "cache_cmd"
    /\ req[r].op.kind = "set"
    /\ IF CommandOk
       THEN /\ redis' = SetField(redis, req[r].op.key,
                           [val |-> req[r].op.val,
                            exp |-> IF req[r].op.ttl # 0
                                    THEN now + req[r].op.ttl ELSE NoExpiry,
                            src |-> req[r].userLocal])
            /\ Commit(r, Resume(req[r], None, now))
       ELSE /\ redis' = redis
            /\ Commit(r, Throw(Log(Note(req[r], "set_fail")), now))
    /\ UNCHANGED <<now, users, audit, autoIncrement, issued, redisUp, client,
                   isConnected, database, procs>>

\* del(): client.del(key); an error is logged and rethrown
CacheDel(r) ==
    /\ req[r].pc = "cache_cmd"
    /\ req[r].op.kind = "del"
    /\ IF CommandOk
       THEN /\ redis' = [k \in DOMAIN redis \ {req[r].op.key} |-> redis[k]]
            /\ Commit(r, Resume(req[r], None, now))
       ELSE /\ redis' = redis
            /\ Commit(r, Throw(Log(Note(req[r], "del_fail")), now))
    /\ UNCHANGED <<now, users, audit, autoIncrement, issued, redisUp, client,
                   isConnected, database, procs>>

\* exists(): client.exists(key) === 1; an error is logged and answered false
CacheExists(r) ==
    /\ req[r].pc = "cache_cmd"
    /\ req[r].op.kind = "exists"
    /\ IF CommandOk
       THEN Commit(r, Resume(req[r], RedisGet(req[r].op.key) # None, now))
       ELSE Commit(r, Resume(Log(Note(req[r], "exists_fail")), FALSE, now))
    /\ UNCHANGED <<now, users, audit, autoIncrement, issued, redis, redisUp, client,
                   isConnected, database, procs>>

----------------------------------------------------------------------------
(* DatabaseService.query *)

\* ghost: the accounts a lookup is about, read off the table itself
Matching(sql, param) ==
    {id \in DOMAIN users :
        \/ sql = "user_by_id" /\ users[id].id = param
        \/ sql = "user_by_key" /\ users[id].api_key = param}

\* ghost: a lookup ran, whether an account matched, whether it was inactive
NoteLookup(q) ==
    LET ids == Matching(q.op.sql, q.op.param)
        q1 == Note(q, "queried")
        q2 == IF ids # {} THEN Note(q1, "row_exists") ELSE q1
    IN  IF \E id \in ids : ~users[id].is_active THEN Note(q2, "inactive_row")
        ELSE q2

\* the singleton after connect() / before connect() or after disconnect()
DatabaseConnected == [connection |-> "connection", isConnected |-> TRUE]
DatabaseClosed == [connection |-> "null", isConnected |-> FALSE]

\* !this.connection || !this.isConnected
NotConnected == database.connection = "null" \/ ~database.isConnected

\* UPDATE users SET api_key = ? WHERE id = ?
SetApiKey(userId, newApiKey) ==
    [id \in DOMAIN users |->
        IF users[id].id = userId
        THEN [users[id] EXCEPT !.api_key = newApiKey, !.updated_at = now]
        ELSE users[id]]

\* the body of a 200 / 201 answer that carries a token, with the row it was
\* built from
Issue(row, t) ==
    [token |-> JwtSign(row.id[2], t),
     user |-> [id |-> row.id, username |-> row.username, email |-> row.email,
               apiKey |-> row.api_key,
               rateLimitPerHour |-> row.rate_limit_per_hour],
     row |-> SelectIdentity(row)]

RECURSIVE IdRows(_)
\* the rows of SELECT id FROM users, for the accounts ids, in the order of id
IdRows(ids) ==
    IF ids = {} THEN <<>>
    ELSE LET id == CHOOSE i \in ids : \A j \in ids : i <= j
         IN  <<[id |-> users[id].id]>> \o IdRows(ids \ {id})

\* SELECT id FROM users WHERE email = ? OR username = ?
ExistingUser(email, username) ==
    IdRows({id \in DOMAIN users :
               users[id].email = email \/ users[id].username = username})

\* the UNIQUE constraints on username, email and api_key refuse the row
DuplicateEntry(username, email, apiKey) ==
    \E id \in DOMAIN users :
        \/ users[id].username = username
        \/ users[id].email = email
        \/ users[id].api_key = apiKey

\* INSERT INTO users (username, email, password_hash, api_key,
\* rate_limit_per_hour) VALUES (?, ?, ?, ?, 100): the row gets the next id
InsertUser(username, email, apiKey) ==
    SetField(users, autoIncrement,
             [id |-> Num(autoIncrement), username |-> username, email |-> email,
              api_key |-> apiKey, rate_limit_per_hour |-> Num(RegisterRateLimit),
              is_active |-> TRUE, updated_at |-> now])

\* what execute() returns for the statement of q
QueryResult(q) ==
    CASE q.op.sql \in {"audit", "audit_regenerated", "audit_registered",
                       "update_api_key"} -> <<>>
      [] q.op.sql = "insert_user" -> [insertId |-> autoIncrement]
      [] q.op.sql = "existing_user" -> ExistingUser(q.op.param[1], q.op.param[2])
      [] OTHER -> QueryRows(q.op.sql, q.op.param)

\* ghost: what the statement of q did
QueryNote(q) ==
    CASE q.op.sql \in {"audit", "audit_regenerated", "audit_registered"} ->
             Note(q, "audited")
      [] q.op.sql = "update_api_key" -> Note(q, "updated")
      [] q.op.sql = "insert_user" -> Note(q, "inserted")
      [] q.op.sql = "existing_user" -> Note(q, "queried")
      [] OTHER -> NoteLookup(q)

\* the action column of the audit row the statement of q inserts
AuditAction(q) ==
    CASE q.op.sql = "audit" -> "api_request"
      [] q.op.sql = "audit_regenerated" -> "api_key_regenerated"
      [] q.op.sql = "audit_registered" -> "user_registered"
      [] OTHER -> "none"

\* connection.execute(sql, params) returned: rows of a SELECT, or the effect
\* of an UPDATE or INSERT and its result
DbQueryOk(r) ==
    /\ req[r].pc = "db"
    /\ ~NotConnected
    /\ LET q == req[r]
           sql == q.op.sql
       IN  /\ sql = "insert_user" =>
                  ~DuplicateEntry(q.op.param[1], q.op.param[2], q.op.param[3])
           /\ users' = CASE sql = "update_api_key" ->
                                SetApiKey(q.op.param, q.newApiKey)
                          [] sql = "insert_user" ->
                                InsertUser(q.op.param[1], q.op.param[2],
                                           q.op.param[3])
                          [] OTHER -> users
           /\ autoIncrement' = IF sql = "insert_user" THEN autoIncrement + 1
                                ELSE autoIncrement
           /\ audit' = IF AuditAction(q) # "none"
                        THEN audit \cup {<<q.op.param, AuditAction(q)>>}
                        ELSE audit
           /\ issued' = IF sql = "audit_registered"
                           /\ q.userLocal[1] \in DOMAIN users
                         THEN issued \cup {Issue(users[q.userLocal[1]], q.at)}
                         ELSE issued
           /\ Commit(r, Resume(QueryNote(q), QueryResult(q), now))
    /\ UNCHANGED <<now, redis, redisUp, client, isConnected, database, procs>>

\* "Database not connected", or execute() threw: logged by query and rethrown
DbQueryFail(r) ==
    /\ req[r].pc = "db"
    /\ Commit(r, Throw(Note(req[r], IF req[r].op.sql = "audit"
                                    THEN "audit_fail" ELSE "query_fail"), now))
    /\ UNCHANGED <<now, users, audit, autoIncrement, issued, redis, redisUp, client,
                   isConnected, database, procs>>

\* DatabaseService.connect(): reuse, or createConnection succeeded
DatabaseConnect ==
    /\ NotConnected
    /\ database' = DatabaseConnected
    /\ UNCHANGED <<now, users, audit, autoIncrement, issued, redis, redisUp, client,
                   isConnected, req, seen, dirty, procs>>

\* DatabaseService.disconnect(): connection.end(), the fields reset
DatabaseDisconnect ==
    /\ database.connection # "null"
    /\ database' = DatabaseClosed
    /\ UNCHANGED <<now, users, audit, autoIncrement, issued, redis, redisUp, client,
                   isConnected, req, seen, dirty, procs>>

\* CacheService.disconnect(): client.quit() on the open client, the fields reset
CacheDisconnect ==
    /\ client # "null"
    /\ isConnected
    /\ client' = "null"
    /\ isConnected' = FALSE
    /\ UNCHANGED <<now, users, audit, autoIncrement, issued, redis, redisUp,
                   database, req, seen, dirty, procs>>

----------------------------------------------------------------------------
(* Environment *)

\* ghost counters are kept for the current hour and for requests in flight
Tracked(k, t) == k[2] >= CurrentHour(t) \/ \E s \in Slots : req[s].bucket = k

Restrict(f, keep) == [k \in {x \in DOMAIN f : keep[x]} |-> f[k]]

\* the wall clock advances by d, up to limit; Redis drops the keys that expired
Advance(d, limit) ==
    /\ now + d <= limit
    /\ now' = now + d
    /\ redis' = Restrict(redis, [k \in DOMAIN redis |-> Live(redis[k], now')])
    /\ seen' = Restrict(seen, [k \in DOMAIN seen |-> Tracked(k, now')])
    /\ dirty' = {k \in dirty : Tracked(k, now')}
    /\ UNCHANGED <<users, audit, autoIncrement, issued, redisUp, client,
                   isConnected, database, req, procs>>

\* half an hour passes
Tick == Advance(SecondsPerHour \div 2, MaxHours * SecondsPerHour)

\* half the lifetime of a cached identity passes
TickTtl == Advance(IdentityTtl \div 2, MaxWindows * IdentityTtl)

\* the lifetime of a session token passes
TickDay == Advance(TokenLifetime, MaxDays * TokenLifetime)

\* the Redis server stops answering / answers again
RedisFail ==
    /\ redisUp
    /\ redisUp' = FALSE
    /\ UNCHANGED <<now, users, audit, autoIncrement, issued, redis, client,
                   isConnected, database, req, seen, dirty, procs>>

RedisRecover ==
    /\ ~redisUp
    /\ redisUp' = TRUE
    /\ UNCHANGED <<now, users, audit, autoIncrement, issued, redis, client,
                   isConnected, database, req, seen, dirty, procs>>

----------------------------------------------------------------------------
(* Requests arriving *)

Quiescent == \A s \in Slots : req[s].pc \in {"idle", "done"}

\* a request arrives in slot r: its first middleware runs to its first await
Start(r, chain, token, apiKey, user) ==
    /\ req[r].pc \in {"idle", "done"}
    /\ LET q0 == FreshRequest(Tail(chain), token, apiKey, user)
       IN  Commit(r, Enter([q0 EXCEPT !.mw = Head(chain)], now))
    /\ UNCHANGED <<now, users, audit, autoIncrement, issued, redis, redisUp, client,
                   isConnected, database, procs>>

\* the identity an authentication middleware resolved from the row of id
Resolved(id) == Some(Identity(SelectIdentity(users[id])))

\* a request reaches userRateLimit, authenticated as an account or not at all
StartRateLimited(r) ==
    \E id \in DOMAIN users \cup {0} :
        /\ id # 0 => Count(seen, <<id, CurrentHour(now)>>) < MaxPerBucket
        /\ Start(r, <<"userRateLimit", "handler">>, NoToken, Undefined,
                 IF id = 0 THEN None ELSE Resolved(id))

----------------------------------------------------------------------------
(* userRateLimit alone, one request at a time *)

QuotaChoices == {Num(n) : n \in 1..MaxQuota} \cup {JsNull}

InitCommon ==
    /\ now = 0
    /\ audit = {}
    /\ autoIncrement = 2
    /\ issued = {}
    /\ redis = [k \in {} |-> 0]
    /\ redisUp = TRUE
    /\ client = "null"
    /\ isConnected = FALSE
    /\ req = [s \in Slots |-> IdleRequest]
    /\ database = DatabaseConnected
    /\ procs = ServerOnly
    /\ seen = [k \in {} |-> 0]
    /\ dirty = {}

InitQuota ==
    /\ InitCommon
    /\ \E quota \in QuotaChoices :
          users = [id \in {1} |-> UserRow(id, Str(ApiKeys[id]), quota)]

NextQuota ==
    \/ Quiescent /\ StartRateLimited(1)
    \/ CacheEnsure(1)
    \/ CacheConnectOk(1)
    \/ CacheConnectFail(1)
    \/ CacheGet(1)
    \/ CacheSet(1)
    \/ DbQueryOk(1)
    \/ DbQueryFail(1)
    \/ Tick
    \/ RedisFail
    \/ RedisRecover

SpecQuota == InitQuota /\ [][NextQuota]_vars

----------------------------------------------------------------------------
(* POST /register and POST /login, and what an operator does to the users
   table *)

Tokens == {i.token : i \in issued}

\* POST /register with a free username and email: the INSERT, the token, the
\* audit INSERT; when the audit INSERT fails the answer is 500 and carries no
\* token
Register(auditOk) ==
    /\ autoIncrement <= NumAccounts
    /\ auditOk => Cardinality(issued) < MaxTokens
    /\ LET userId == autoIncrement
           row == [UserRow(userId, Str(ApiKeys[userId]), Num(RegisterRateLimit))
                       EXCEPT !.updated_at = now]
       IN  /\ users' = SetField(users, userId, row)
           /\ autoIncrement' = userId + 1
           /\ issued' = IF auditOk THEN issued \cup {Issue(row, now)} ELSE issued
           /\ audit' = IF auditOk THEN audit \cup {<<row.id, "user_registered">>}
                       ELSE audit
    /\ UNCHANGED <<now, redis, redisUp, client, isConnected, database, req, seen, dirty,
                   procs>>

\* POST /login with the email and password of account id, answered 200
Login(id) ==
    /\ id \in DOMAIN users
    /\ Cardinality(issued) < MaxTokens
    /\ issued' = issued \cup {Issue(users[id], now)}
    /\ audit' = audit \cup {<<users[id].id, "user_login">>}
    /\ UNCHANGED <<now, users, autoIncrement, redis, redisUp, client,
                   isConnected, database, req, seen, dirty, procs>>

\* DELETE FROM users WHERE id = ?
AdminDelete(id) ==
    /\ id \in DOMAIN users
    /\ users' = Restrict(users, [k \in DOMAIN users |-> k # id])
    /\ UNCHANGED <<now, audit, autoIncrement, issued, redis, redisUp, client,
                   isConnected, database, req, seen, dirty, procs>>

\* UPDATE users SET is_active = FALSE WHERE id = ?
AdminDeactivate(id) ==
    /\ id \in DOMAIN users
    /\ users[id].is_active
    /\ users' = [users EXCEPT ![id].is_active = FALSE, ![id].updated_at = now]
    /\ UNCHANGED <<now, audit, autoIncrement, issued, redis, redisUp, client,
                   isConnected, database, req, seen, dirty, procs>>

----------------------------------------------------------------------------
(* authenticateToken: requests with a bearer token, one at a time *)

Garbage == [NoToken EXCEPT !.form = "garbage"]

\* a token re-signed without the secret: a later expiry, for the same account
\* or for the next one
Forged(token) ==
    {[token EXCEPT !.sig = "tampered", !.userId = id,
                   !.exp = @ + TokenLifetime] :
        id \in {token.userId, (token.userId % NumAccounts) + 1}}

\* what a client may send as Authorization: Bearer ...
PresentableTokens ==
    {NoToken, Garbage} \cup Tokens \cup UNION {Forged(token) : token \in Tokens}

StartTokenRequest(r) ==
    \E token \in PresentableTokens :
        Start(r, <<"authenticateToken", "handler">>, token, Undefined, None)

InitToken ==
    /\ now = 0
    /\ users = [id \in {} |-> 0]
    /\ autoIncrement = 1
    /\ audit = {}
    /\ issued = {}
    /\ redis = [k \in {} |-> 0]
    /\ redisUp = TRUE
    /\ client = "null"
    /\ isConnected = FALSE
    /\ req = [s \in Slots |-> IdleRequest]
    /\ database = DatabaseConnected
    /\ procs = ServerOnly
    /\ seen = [k \in {} |-> 0]
    /\ dirty = {}

NextToken ==
    \/ Quiescent /\ StartTokenRequest(1)
    \/ DbQueryOk(1)
    \/ DbQueryFail(1)
    \/ \E auditOk \in BOOLEAN : Register(auditOk)
    \/ \E id \in AccountIds : Login(id)
    \/ \E id \in AccountIds : AdminDelete(id)
    \/ \E id \in AccountIds : AdminDeactivate(id)
    \/ TickDay

SpecToken == InitToken /\ [][NextToken]_vars

----------------------------------------------------------------------------
(* authenticateApiKey: requests with an X-API-Key header, one at a time, while
   the account's quota is edited through PUT /rate-limit *)

UnknownKey == Str("mcp_0")

StartApiKeyRequest(r) ==
    \E apiKey \in {Undefined, UnknownKey} \cup {users[id].api_key : id \in DOMAIN users} :
        Start(r, <<"authenticateApiKey", "handler">>, NoToken, apiKey, None)

\* the handler of PUT /rate-limit for account id with a positive number: the
\* UPDATE, then the audit INSERT, which may fail after the UPDATE took effect
UpdateRateLimit(id, rateLimitPerHour, auditOk) ==
    /\ id \in DOMAIN users
    /\ rateLimitPerHour >= 1
    /\ users' = [users EXCEPT ![id].rate_limit_per_hour = Num(rateLimitPerHour),
                              ![id].updated_at = now]
    /\ audit' = IF auditOk THEN audit \cup {<<users[id].id, "rate_limit_updated">>}
                ELSE audit
    /\ UNCHANGED <<now, autoIncrement, issued, redis, redisUp, client,
                   isConnected, database, req, seen, dirty, procs>>

NextApiKey ==
    \/ Quiescent /\ StartApiKeyRequest(1)
    \/ CacheEnsure(1)
    \/ CacheConnectOk(1)
    \/ CacheConnectFail(1)
    \/ CacheGet(1)
    \/ CacheSet(1)
    \/ DbQueryOk(1)
    \/ DbQueryFail(1)
    \/ \E id \in DOMAIN users, n \in (1..MaxQuota) \cup {RegisterRateLimit},
          auditOk \in BOOLEAN : UpdateRateLimit(id, n, auditOk)
    \/ Tick
    \/ RedisFail
    \/ RedisRecover

SpecApiKey == InitQuota /\ [][NextApiKey]_vars

----------------------------------------------------------------------------
(* optionalAuth: GET /api/tools with any combination of headers, the accounts
   registered and holding their tokens *)

\* an Authorization header of another scheme
Basic == [NoToken EXCEPT !.form = "basic"]

PresentableKeys ==
    {Undefined, UnknownKey} \cup {Str(ApiKeys[id]) : id \in AccountIds}

StartOptionalRequest(r) ==
    \E token \in PresentableTokens \cup {Basic}, apiKey \in PresentableKeys :
        Start(r, <<"optionalAuth", "handler">>, token, apiKey, None)

InitOptional ==
    /\ now = 0
    /\ users = [id \in AccountIds |->
                   UserRow(id, Str(ApiKeys[id]), Num(RegisterRateLimit))]
    /\ autoIncrement = NumAccounts + 1
    /\ audit = {<<Num(id), "user_registered">> : id \in AccountIds}
    /\ issued = {Issue(UserRow(id, Str(ApiKeys[id]), Num(RegisterRateLimit)), 0) :
                    id \in AccountIds}
    /\ redis = [k \in {} |-> 0]
    /\ redisUp = TRUE
    /\ client = "null"
    /\ isConnected = FALSE
    /\ req = [s \in Slots |-> IdleRequest]
    /\ database = DatabaseConnected
    /\ procs = ServerOnly
    /\ seen = [k \in {} |-> 0]
    /\ dirty = {}

NextOptional ==
    \/ Quiescent /\ StartOptionalRequest(1)
    \/ DbQueryOk(1)
    \/ DbQueryFail(1)
    \/ \E id \in AccountIds : AdminDelete(id)
    \/ TickDay

SpecOptional == InitOptional /\ [][NextOptional]_vars

----------------------------------------------------------------------------
(* The three middlewares, one request at a time, while the account's row is
   edited: PUT /rate-limit, POST /api-key/regenerate, deactivation *)

\* how many times the key of account id was regenerated
Generation(id) ==
    IF users[id].api_key = Str(ApiKeys[id]) THEN 0
    ELSE CHOOSE g \in 1..Len(RegeneratedKeys[id]) :
             users[id].api_key = Str(RegeneratedKeys[id][g])

\* every key account id has had so far
KeysSoFar(id) ==
    {Str(ApiKeys[id])} \cup {Str(RegeneratedKeys[id][g]) : g \in 1..Generation(id)}

\* the handler of POST /api-key/regenerate for account id: the UPDATE, then
\* the audit INSERT, which may fail after the UPDATE took effect
RegenerateApiKey(id, auditOk) ==
    /\ id \in DOMAIN users
    /\ Generation(id) < MaxRotations
    /\ LET newApiKey == Str(RegeneratedKeys[id][Generation(id) + 1])
       IN  users' = [users EXCEPT ![id].api_key = newApiKey,
                                  ![id].updated_at = now]
    /\ audit' = IF auditOk THEN audit \cup {<<users[id].id, "api_key_regenerated">>}
                ELSE audit
    /\ UNCHANGED <<now, autoIncrement, issued, redis, redisUp, client,
                   isConnected, database, req, seen, dirty, procs>>

\* a request with an X-API-Key header: none, unknown, current or replaced
StartAnyKeyRequest(r) ==
    \E apiKey \in {Undefined, UnknownKey} \cup UNION {KeysSoFar(id) : id \in DOMAIN users} :
        Start(r, <<"authenticateApiKey", "handler">>, NoToken, apiKey, None)

\* a request reaches userRateLimit with no req.user
StartAnonymousRateLimited(r) ==
    Start(r, <<"userRateLimit", "handler">>, NoToken, Undefined, None)

InitAuth ==
    /\ now = 0
    /\ users = [id \in {1} |-> UserRow(id, Str(ApiKeys[id]), Num(RegisterRateLimit))]
    /\ autoIncrement = 2
    /\ audit = {<<Num(1), "user_registered">>}
    /\ issued = {Issue(UserRow(1, Str(ApiKeys[1]), Num(RegisterRateLimit)), 0)}
    /\ redis = [k \in {} |-> 0]
    /\ redisUp = TRUE
    /\ client = "null"
    /\ isConnected = FALSE
    /\ req = [s \in Slots |-> IdleRequest]
    /\ database = DatabaseConnected
    /\ procs = ServerOnly
    /\ seen = [k \in {} |-> 0]
    /\ dirty = {}

NextAuth ==
    \/ Quiescent /\ StartAnyKeyRequest(1)
    \/ Quiescent /\ StartTokenRequest(1)
    \/ Quiescent /\ StartAnonymousRateLimited(1)
    \/ CacheEnsure(1)
    \/ CacheConnectOk(1)
    \/ CacheConnectFail(1)
    \/ CacheGet(1)
    \/ CacheSet(1)
    \/ DbQueryOk(1)
    \/ DbQueryFail(1)
    \/ UpdateRateLimit(1, MaxQuota, TRUE)
    \/ RegenerateApiKey(1, TRUE)
    \/ AdminDeactivate(1)
    \/ RedisFail
    \/ RedisRecover

SpecAuth == InitAuth /\ [][NextAuth]_vars

----------------------------------------------------------------------------
(* authenticateApiKey over the lifetime of its cache entries, while the
   account's row is edited *)

NextStale ==
    \/ Quiescent /\ StartAnyKeyRequest(1)
    \/ Quiescent /\ StartTokenRequest(1)
    \/ CacheEnsure(1)
    \/ CacheConnectOk(1)
    \/ CacheGet(1)
    \/ CacheSet(1)
    \/ DbQueryOk(1)
    \/ UpdateRateLimit(1, MaxQuota, TRUE)
    \/ RegenerateApiKey(1, TRUE)
    \/ AdminDeactivate(1)
    \/ TickTtl

SpecStale == InitAuth /\ [][NextStale]_vars

----------------------------------------------------------------------------
(* POST /api/tools/execute/:toolName: authenticateApiKey, userRateLimit, the
   handler, one request at a time *)

StartExecute(r) ==
    \E apiKey \in {Undefined, UnknownKey} \cup {users[id].api_key : id \in DOMAIN users} :
        /\ \A id \in DOMAIN users :
               Count(seen, <<id, CurrentHour(now)>>) < MaxPerBucket
        /\ Start(r, <<"authenticateApiKey", "userRateLimit", "handler">>,
                 NoToken, apiKey, None)

NextExecute ==
    \/ Quiescent /\ StartExecute(1)
    \/ CacheEnsure(1)
    \/ CacheConnectOk(1)
    \/ CacheConnectFail(1)
    \/ CacheGet(1)
    \/ CacheSet(1)
    \/ DbQueryOk(1)
    \/ DbQueryFail(1)
    \/ RedisFail
    \/ RedisRecover

SpecExecute == InitQuota /\ [][NextExecute]_vars

----------------------------------------------------------------------------
(* The four middlewares on the routes that mount them, one request at a time,
   with the store and the cache failing and the account deleted *)

NextOutcome ==
    \/ Quiescent /\ StartTokenRequest(1)
    \/ Quiescent /\ StartAnyKeyRequest(1)
    \/ Quiescent /\ StartAnonymousRateLimited(1)
    \/ Quiescent /\ StartOptionalRequest(1)
    \/ Quiescent /\ StartExecute(1)
    \/ CacheEnsure(1)
    \/ CacheConnectOk(1)
    \/ CacheConnectFail(1)
    \/ CacheGet(1)
    \/ CacheSet(1)
    \/ DbQueryOk(1)
    \/ DbQueryFail(1)
    \/ AdminDelete(1)
    \/ RedisFail
    \/ RedisRecover

SpecOutcome == InitAuth /\ [][NextOutcome]_vars

----------------------------------------------------------------------------
(* POST /api-key/regenerate behind authenticateToken, one request at a time,
   with the queries failing *)

\* a request arrives with a bearer token; randomUUID() will give it the next
\* key of account 1, the one account there is
StartRegenerate(r) ==
    /\ req[r].pc \in {"idle", "done"}
    /\ Generation(1) < MaxRotations
    /\ \E token \in PresentableTokens :
          LET newApiKey == Str(RegeneratedKeys[1][Generation(1) + 1])
              q0 == [FreshRequest(<<"regenerate">>, token, Undefined, None)
                        EXCEPT !.mw = "authenticateToken",
                               !.newApiKey = newApiKey]
          IN  Commit(r, Enter(q0, now))
    /\ UNCHANGED <<now, users, audit, autoIncrement, issued, redis, redisUp, client,
                   isConnected, database, procs>>

NextRegenerate ==
    \/ Quiescent /\ StartRegenerate(1)
    \/ DbQueryOk(1)
    \/ DbQueryFail(1)
    \/ UpdateRateLimit(1, MaxQuota, TRUE)
    \/ AdminDeactivate(1)
    \/ DatabaseDisconnect
    \/ DatabaseConnect
    \/ TickDay

SpecRegenerate == InitAuth /\ [][NextRegenerate]_vars

----------------------------------------------------------------------------
(* POST /register under concurrent requests, one account registered before *)

\* request bodies that pass registerSchema: the username or the email of the
\* registered account, or both, or neither
RegisterBodies ==
    {[username |-> Str(UserNames[i]), email |-> Str(Emails[j])] :
        i \in {1, NumAccounts}, j \in {1, NumAccounts}}

\* a request arrives, once per slot, the slots taken in order; randomUUID()
\* will give it a key no account has
StartRegister(r) ==
    /\ req[r].pc = "idle"
    /\ \A s \in Slots : s < r => req[s].pc # "idle"
    /\ \E body \in RegisterBodies \cup {NoBody} :
          LET q0 == [FreshRequest(<<>>, NoToken, Undefined, None)
                        EXCEPT !.mw = "register", !.body = body,
                               !.newApiKey = Str(ApiKeys[r + 1])]
          IN  Commit(r, Enter(q0, now))
    /\ UNCHANGED <<now, users, audit, autoIncrement, issued, redis, redisUp, client,
                   isConnected, database, procs>>

NextRegister ==
    \E r \in Slots :
        \/ StartRegister(r)
        \/ DbQueryOk(r)
        \/ DbQueryFail(r)

SpecRegister == InitAuth /\ [][NextRegister]_vars

----------------------------------------------------------------------------
(* Server.start() in every node process, with or without MCP_MODE=stdio *)

\* `await database.connect()` (or the skip): on an error the catch block of
\* start() ends the process with exit(1)
StartDatabase(p, ok) ==
    /\ p \in DOMAIN procs
    /\ procs[p].pc = "database"
    /\ procs' = [procs EXCEPT ![p].pc = IF ok THEN "cache" ELSE "exited"]
    /\ UNCHANGED <<now, users, audit, autoIncrement, issued, redis, redisUp, client,
                   isConnected, database, req, seen, dirty>>

\* `await cache.connect()` (or the skip)
StartCache(p, ok) ==
    /\ p \in DOMAIN procs
    /\ procs[p].pc = "cache"
    /\ procs' = [procs EXCEPT ![p].pc = IF ok THEN "mcp" ELSE "exited"]
    /\ UNCHANGED <<now, users, audit, autoIncrement, issued, redis, redisUp, client,
                   isConnected, database, req, seen, dirty>>

\* `if (process.env.MCP_MODE === "stdio") await mcpStdioHandler.start()`:
\* spawn("node", ["dist/server.js"], {env: {...process.env, MCP_MODE: "stdio"}})
McpStdioStart(p) ==
    /\ p \in DOMAIN procs
    /\ procs[p].pc = "mcp"
    /\ IF procs[p].MCP_MODE = "stdio"
       THEN /\ Len(procs) < MaxProcesses
            /\ procs' = Append([procs EXCEPT ![p].pc = "listen"],
                               NodeProcess(p, "stdio"))
       ELSE procs' = [procs EXCEPT ![p].pc = "listen"]
    /\ UNCHANGED <<now, users, audit, autoIncrement, issued, redis, redisUp, client,
                   isConnected, database, req, seen, dirty>>

\* app.listen(config.server.port): the port is free, or another process holds
\* it and the unhandled 'error' event of the server ends the process
Listen(p) ==
    /\ p \in DOMAIN procs
    /\ procs[p].pc = "listen"
    /\ procs' = [procs EXCEPT ![p].pc =
                     IF \E o \in DOMAIN procs : procs[o].pc = "listening"
                     THEN "exited" ELSE "listening"]
    /\ UNCHANGED <<now, users, audit, autoIncrement, issued, redis, redisUp, client,
                   isConnected, database, req, seen, dirty>>

InitStdio ==
    /\ now = 0
    /\ users = [id \in {} |-> 0]
    /\ autoIncrement = 1
    /\ audit = {}
    /\ issued = {}
    /\ redis = [k \in {} |-> 0]
    /\ redisUp = TRUE
    /\ client = "null"
    /\ isConnected = FALSE
    /\ database = DatabaseClosed
    /\ req = [s \in Slots |-> IdleRequest]
    /\ seen = [k \in {} |-> 0]
    /\ dirty = {}
    /\ \E mcpMode \in {"stdio", "unset"} : procs = <<NodeProcess(0, mcpMode)>>

NextStdio ==
    \/ \E p \in 1..MaxProcesses, ok \in BOOLEAN : StartDatabase(p, ok)
    \/ \E p \in 1..MaxProcesses, ok \in BOOLEAN : StartCache(p, ok)
    \/ \E p \in 1..MaxProcesses : McpStdioStart(p)
    \/ \E p \in 1..MaxProcesses : Listen(p)

SpecStdio == InitStdio /\ [][NextStdio]_vars

----------------------------------------------------------------------------
(* authenticateApiKey while another client of the Redis server leaves values
   under `api_key:` keys that are no JSON text *)

\* strings JSON.parse throws on: a cut-off object, a bare word
BadCacheValues == {<<"{", "\"", "id", "\"", ":">>, <<"undefined">>}

\* SET key val by a client other than CacheService
ForeignWrite(key, val) ==
    /\ redisUp
    /\ redis' = SetField(redis, key, [val |-> val, exp |-> NoExpiry, src |-> None])
    /\ UNCHANGED <<now, users, audit, autoIncrement, issued, redisUp, client,
                   isConnected, database, req, seen, dirty, procs>>

NextCorrupt ==
    \/ Quiescent /\ StartApiKeyRequest(1)
    \/ CacheEnsure(1)
    \/ CacheConnectOk(1)
    \/ CacheConnectFail(1)
    \/ CacheGet(1)
    \/ CacheSet(1)
    \/ DbQueryOk(1)
    \/ DbQueryFail(1)
    \/ \E apiKey \in {UnknownKey, Str(ApiKeys[1])}, val \in BadCacheValues :
          ForeignWrite(ApiKeyKey(apiKey), val)
    \/ AdminDelete(1)
    \/ RedisFail
    \/ RedisRecover

SpecCorrupt == InitAuth /\ [][NextCorrupt]_vars

----------------------------------------------------------------------------
(* POST /execute/:toolName while the two singletons are connected and torn
   down: the server started with or without SKIP_DATABASE / SKIP_REDIS, Redis
   and MySQL reachable *)

InitLifecycle ==
    /\ now = 0
    /\ users = [id \in {1} |-> UserRow(id, Str(ApiKeys[id]), Num(MaxQuota))]
    /\ autoIncrement = 2
    /\ audit = {}
    /\ issued = {}
    /\ redis = [k \in {} |-> 0]
    /\ redisUp = TRUE
    /\ \E skipRedis \in BOOLEAN :
          /\ client = IF skipRedis THEN "null" ELSE "client"
          /\ isConnected = ~skipRedis
    /\ database \in {DatabaseConnected, DatabaseClosed}
    /\ procs = ServerOnly
    /\ req = [s \in Slots |-> IdleRequest]
    /\ seen = [k \in {} |-> 0]
    /\ dirty = {}

NextLifecycle ==
    \/ Quiescent /\ StartExecute(1)
    \/ CacheEnsure(1)
    \/ CacheConnectOk(1)
    \/ CacheGet(1)
    \/ CacheSet(1)
    \/ DbQueryOk(1)
    \/ DbQueryFail(1)
    \/ DatabaseConnect
    \/ DatabaseDisconnect
    \/ CacheDisconnect

SpecLifecycle == InitLifecycle /\ [][NextLifecycle]_vars

----------------------------------------------------------------------------
(* CacheService under concurrent callers of get, set, del and exists, with
   disconnect() and a Redis server that comes and goes *)

\* a caller calls one method of the CacheService
StartCall(r) ==
    /\ req[r].pc \in {"idle", "done"}
    /\ \E method \in CacheMethods :
          Commit(r, Enter([FreshRequest(<<>>, NoToken, Undefined, None)
                              EXCEPT !.mw = method], now))
    /\ UNCHANGED <<now, users, audit, autoIncrement, issued, redis, redisUp, client,
                   isConnected, database, procs>>

NextCache ==
    \/ \E r \in Slots :
          \/ StartCall(r)
          \/ CacheEnsure(r)
          \/ CacheConnectOk(r)
          \/ CacheConnectFail(r)
          \/ CacheGet(r)
          \/ CacheSet(r)
          \/ CacheDel(r)
          \/ CacheExists(r)
    \/ CacheDisconnect
    \/ RedisFail
    \/ RedisRecover

SpecCache == InitLifecycle /\ [][NextCache]_vars

----------------------------------------------------------------------------
(* GET /api/health/detailed, one request at a time, while MySQL and Redis come
   and go *)

StartDetailed(r) ==
    /\ req[r].pc \in {"idle", "done"}
    /\ Commit(r, Enter([FreshRequest(<<>>, NoToken, Undefined, None)
                            EXCEPT !.mw = "detailed"], now))
    /\ UNCHANGED <<now, users, audit, autoIncrement, issued, redis, redisUp, client,
                   isConnected, database, procs>>

NextHealth ==
    \/ Quiescent /\ StartDetailed(1)
    \/ CacheEnsure(1)
    \/ CacheConnectOk(1)
    \/ CacheConnectFail(1)
    \/ CacheGet(1)
    \/ CacheSet(1)
    \/ DbQueryOk(1)
    \/ DbQueryFail(1)
    \/ DatabaseConnect
    \/ DatabaseDisconnect
    \/ RedisFail
    \/ RedisRecover

SpecHealth == InitLifecycle /\ [][NextHealth]_vars

----------------------------------------------------------------------------
(* userRateLimit under concurrent requests of one account, the counter of the
   hour standing at hourlyQuota - 1 after hourlyQuota - 1 earlier requests *)

FirstBucket == <<1, 0>>

InitConcurrent ==
    /\ now = 0
    /\ autoIncrement = 2
    /\ issued = {}
    /\ redisUp = TRUE
    /\ req = [s \in Slots |-> IdleRequest]
    /\ database = DatabaseConnected
    /\ procs = ServerOnly
    /\ dirty = {}
    /\ \E quota \in 1..MaxQuota :
          /\ users = [id \in {1} |-> UserRow(id, Str(ApiKeys[id]), Num(quota))]
          /\ IF quota > 1
             THEN /\ redis = [k \in {RateLimitKey(Num(1), 0)} |->
                                [val |-> NumberToString(quota - 1),
                                 exp |-> CounterTtl, src |-> <<>>]]
                  /\ seen = [k \in {FirstBucket} |-> quota - 1]
                  /\ audit = {<<Num(1), "api_request">>}
                  /\ client = "client"
                  /\ isConnected = TRUE
             ELSE /\ redis = [k \in {} |-> 0]
                  /\ seen = [k \in {} |-> 0]
                  /\ audit = {}
                  /\ client = "null"
                  /\ isConnected = FALSE

\* a request of account 1 reaches userRateLimit, once per slot; the slots are
\* taken in order
StartConcurrent(r) ==
    /\ req[r].pc = "idle"
    /\ \A s \in Slots : s < r => req[s].pc # "idle"
    /\ Start(r, <<"userRateLimit", "handler">>, NoToken, Undefined, Resolved(1))

NextConcurrent ==
    \/ \E r \in Slots :
          \/ StartConcurrent(r)
          \/ CacheEnsure(r)
          \/ CacheConnectOk(r)
          \/ CacheConnectFail(r)
          \/ CacheGet(r)
          \/ CacheSet(r)
          \/ DbQueryOk(r)
          \/ DbQueryFail(r)
    \/ RedisFail
    \/ RedisRecover

SpecConcurrent == InitConcurrent /\ [][NextConcurrent]_vars

----------------------------------------------------------------------------
(* userRateLimit under concurrent requests of several accounts with different
   quotas, the CacheService connected and Redis answering *)

\* account 1 may make one request an hour, account 2 two, ...
QuotaOfAccount(id) == ((id - 1) % MaxQuota) + 1

\* the counters of hour 0 after used[id] admitted requests of every account
CountersAfter(used) ==
    LET ids == {id \in AccountIds : used[id] > 0}
        owner(k) == CHOOSE id \in ids : RateLimitKey(Num(id), 0) = k
    IN  [k \in {RateLimitKey(Num(id), 0) : id \in ids} |->
            [val |-> NumberToString(used[owner(k)]), exp |-> CounterTtl,
             src |-> <<>>]]

\* the hour has begun: of every account either all but one or all of the
\* requests of its quota were admitted, and its counter says so
InitTenants ==
    /\ now = 0
    /\ autoIncrement = NumAccounts + 1
    /\ issued = {}
    /\ redisUp = TRUE
    /\ client = "client"
    /\ isConnected = TRUE
    /\ database = DatabaseConnected
    /\ procs = ServerOnly
    /\ req = [s \in Slots |-> IdleRequest]
    /\ dirty = {}
    /\ users = [id \in AccountIds |->
                   UserRow(id, Str(ApiKeys[id]), Num(QuotaOfAccount(id)))]
    /\ \E used \in [AccountIds -> 0..MaxQuota] :
          /\ \A id \in AccountIds :
                 used[id] \in {QuotaOfAccount(id) - 1, QuotaOfAccount(id)}
          /\ redis = CountersAfter(used)
          /\ seen = [b \in {<<id, 0>> : id \in {a \in AccountIds : used[a] > 0}} |->
                        used[b[1]]]
          /\ audit = {<<Num(id), "api_request">> :
                          id \in {a \in AccountIds : used[a] > 0}}

\* a request of account id reaches userRateLimit, once per slot; the slots are
\* taken in order
StartTenant(r, id) ==
    /\ req[r].pc = "idle"
    /\ \A s \in Slots : s < r => req[s].pc # "idle"
    /\ Start(r, <<"userRateLimit", "handler">>, NoToken, Undefined, Resolved(id))

NextTenants ==
    \/ \E r \in Slots :
          \/ \E id \in AccountIds : StartTenant(r, id)
          \/ CacheEnsure(r)
          \/ CacheGet(r)
          \/ CacheSet(r)
          \/ DbQueryOk(r)
          \/ DbQueryFail(r)

SpecTenants == InitTenants /\ [][NextTenants]_vars

----------------------------------------------------------------------------
(* Properties of userRateLimit, one request at a time (SpecQuota) *)

Finished(q) == q.pc = "done" /\ q.nth > 0

Admitted(q) == q.nexts = <<"userRateLimit">> /\ q.res = <<>> /\ q.handled

Rejected429(q) ==
    /\ q.nexts = <<>>
    /\ ~q.handled
    /\ Len(q.res) = 1
    /\ q.res[1].status = 429
    /\ q.res[1].retryAfter = Some(3600)

HasQuota(q) == q.user[1].rateLimitPerHour[1] = "num"

QuotaOf(q) == q.user[1].rateLimitPerHour[2]

StoredCounter(q) ==
    IF q.cacheKey \in DOMAIN redis THEN redis[q.cacheKey].val ELSE <<>>

InBucket(q) == CurrentHour(now) = q.bucket[2]

CacheFailed(q) == \E e \in CacheFailures : <<"userRateLimit", e>> \in q.ev

\* C1: with the cache reachable and requests one at a time, the n-th request of
\* an account that passes through userRateLimit inside an hour bucket is admitted
\* and leaves the counter at n when n <= hourlyQuota, and is rejected with 429
\* and retryAfter 3600 (the counter staying at hourlyQuota) when n > hourlyQuota.
C1_SequentialQuota ==
    \A r \in Slots :
        LET q == req[r]
        IN  (Finished(q) /\ InBucket(q) /\ HasQuota(q) /\ q.bucket \notin dirty) =>
                IF q.nth <= QuotaOf(q)
                THEN Admitted(q) /\ StoredCounter(q) = Digits(q.nth)
                ELSE Rejected429(q) /\ StoredCounter(q) = Digits(QuotaOf(q))

\* a request beyond the quota was rejected after the quota was used up
C1_Witness ==
    \E r \in Slots :
        /\ Finished(req[r]) /\ HasQuota(req[r]) /\ req[r].bucket \notin dirty
        /\ QuotaOf(req[r]) = MaxQuota
        /\ req[r].nth = MaxQuota + 1
        /\ Rejected429(req[r])
        /\ InBucket(req[r]) /\ StoredCounter(req[r]) = Digits(MaxQuota)

\* C3: a request during which the cache failed (connect, get or set) is
\* admitted: next() is called and no response is sent.
C3_CacheFailOpen ==
    \A r \in Slots :
        (Finished(req[r]) /\ CacheFailed(req[r])) => Admitted(req[r])

\* a request whose counter write threw has finished
C3_Witness ==
    \E r \in Slots :
        /\ Finished(req[r])
        /\ <<"userRateLimit", "set_fail">> \in req[r].ev
        /\ Admitted(req[r])

\* C7: the first request of an account in an hour bucket reads a count of 0, and
\* the first hourlyQuota requests of every bucket are admitted, whatever the
\* count of the previous bucket.
C7_NewBucketResets ==
    \A r \in Slots :
        LET q == req[r]
        IN  (Finished(q) /\ HasQuota(q)) =>
                /\ q.nth = 1 => q.currentCount = 0
                /\ q.nth <= QuotaOf(q) => Admitted(q)

\* the previous hour's counter stands at the quota and the burst of the new
\* hour has been admitted in full
C7_Witness ==
    \E r \in Slots :
        LET q == req[r]
            previous == RateLimitKey(q.user[1].userId, now - SecondsPerHour)
        IN  /\ Finished(q) /\ HasQuota(q) /\ InBucket(q)
            /\ q.bucket[2] = 1
            /\ QuotaOf(q) = MaxQuota
            /\ q.nth = MaxQuota
            /\ Admitted(q)
            /\ StoredCounter(q) = Digits(MaxQuota)
            /\ previous \in DOMAIN redis
            /\ redis[previous].val = Digits(MaxQuota)

\* C10: when the audit INSERT fails after the counter was written, the request is
\* admitted and the counter written stays.
C10_AuditFailureAdmits ==
    \A r \in Slots :
        LET q == req[r]
        IN  (Finished(q) /\ <<"userRateLimit", "audit_fail">> \in q.ev) =>
                /\ Admitted(q)
                /\ InBucket(q) => StoredCounter(q) = Digits(q.currentCount + 1)

\* the audit INSERT of an admitted request failed
C10_Witness ==
    \E r \in Slots :
        /\ Finished(req[r])
        /\ <<"userRateLimit", "audit_fail">> \in req[r].ev
        /\ InBucket(req[r])
        /\ StoredCounter(req[r]) = Digits(req[r].currentCount + 1)

----------------------------------------------------------------------------
(* Properties of userRateLimit under concurrency (SpecConcurrent) *)

RECURSIVE Occurrences(_, _)
Occurrences(seq, x) ==
    IF seq = <<>> THEN 0
    ELSE (IF Head(seq) = x THEN 1 ELSE 0) + Occurrences(Tail(seq), x)

RECURSIVE SumOver(_, _)
SumOver(f, S) ==
    IF S = {} THEN 0
    ELSE LET x == CHOOSE y \in S : TRUE IN f[x] + SumOver(f, S \ {x})

\* next() calls userRateLimit made for requests of bucket b
AdmissionsIn(b) ==
    SumOver([r \in Slots |-> IF req[r].nth > 0 /\ req[r].bucket = b
                             THEN Occurrences(req[r].nexts, "userRateLimit")
                             ELSE 0],
            Slots)

InitialQuota == users[1].rate_limit_per_hour[2]

\* C2: with hourlyQuota - 1 requests admitted before, NumSlots concurrent
\* requests of the bucket bring the admissions to at most
\* hourlyQuota + NumSlots - 1, under every interleaving.
C2_OvershootBound ==
    (InitialQuota - 1) + AdmissionsIn(FirstBucket) <= InitialQuota + NumSlots - 1

\* every one of the concurrent requests was admitted: the bound is met
C2_Witness ==
    /\ \A r \in Slots : req[r].pc = "done" /\ req[r].bucket = FirstBucket
    /\ InitialQuota = MaxQuota
    /\ AdmissionsIn(FirstBucket) = NumSlots
    /\ \A r \in Slots : req[r].ev = {<<"userRateLimit", "audited">>}
    /\ \A r \in Slots : req[r].currentCount = InitialQuota - 1

----------------------------------------------------------------------------
(* Properties of authenticateToken (SpecToken) *)

Did(q, mw, e) == <<mw, e>> \in q.ev

Passed(q, mw) == \E i \in 1..Len(q.nexts) : q.nexts[i] = mw

Answered(q, status, message) ==
    /\ Len(q.res) = 1
    /\ q.res[1].status = status
    /\ q.res[1].message = message

Expired(q) == q.at >= q.token.exp

\* the token is malformed, fails signature verification or is expired
BadToken(q) ==
    /\ q.token.form # "absent"
    /\ q.token.form # "jwt" \/ q.token.sig # "valid" \/ Expired(q)

TokenRequest(q) == q.pc # "idle" /\ q.nexts \in {<<>>, <<"authenticateToken">>}

\* C4: for every token that is expired, malformed or fails signature
\* verification, authenticateToken answers 401 "Invalid token", never
\* "User not found", and no lookup in the users table is made or attempted.
C4_InvalidTokenBeforeLookup ==
    \A r \in Slots :
        LET q == req[r]
        IN  (TokenRequest(q) /\ BadToken(q)) =>
                /\ q.pc = "done"
                /\ Answered(q, 401, <<"Invalid token">>)
                /\ q.nexts = <<>>
                /\ ~Did(q, "authenticateToken", "queried")
                /\ ~Did(q, "authenticateToken", "query_fail")

\* an expired token with a good signature, of an account that was deleted,
\* is answered "Invalid token"
C4_Witness ==
    \E r \in Slots :
        LET q == req[r]
        IN  /\ TokenRequest(q)
            /\ q.token \in Tokens
            /\ Expired(q)
            /\ q.token.userId \notin DOMAIN users
            /\ Answered(q, 401, <<"Invalid token">>)

\* C5: a request with a valid, non-expired token whose account is deactivated
\* is rejected by authenticateToken; next() is never called for it.
C5_InactiveRejected ==
    \A r \in Slots :
        Did(req[r], "authenticateToken", "inactive_row") =>
            ~Passed(req[r], "authenticateToken")

\* C8: for every valid, non-expired token issued at login or registration
\* whose account still exists at the lookup, authenticateToken calls next()
\* with req.user.userId equal to the account id embedded in the token; and
\* every issued token carries the id of the row whose id and API key were
\* returned with it.
C8_TokenResolvesEmbeddedId ==
    /\ \A r \in Slots :
           LET q == req[r]
           IN  (/\ q.pc = "done"
                /\ q.token \in Tokens
                /\ Did(q, "authenticateToken", "row_exists")) =>
                   /\ q.res = <<>>
                   /\ Passed(q, "authenticateToken")
                   /\ q.user # None
                   /\ q.user[1].userId = Num(q.token.userId)
    /\ \A r \in Slots :
           Passed(req[r], "authenticateToken") =>
               /\ req[r].token \in Tokens
               /\ req[r].user[1].userId = Num(req[r].token.userId)
    /\ \A i \in issued :
           /\ i.user.id = Num(i.token.userId)
           /\ i.row.id = i.user.id
           /\ i.row.api_key = i.user.apiKey
           /\ i.row.api_key = Str(ApiKeys[i.token.userId])

\* a token issued by a login of the second account resolves the second account
C8_Witness ==
    \E r \in Slots :
        LET q == req[r]
        IN  /\ q.pc = "done"
            /\ q.token \in Tokens
            /\ q.token.userId = 2
            /\ <<Num(2), "user_login">> \in audit
            /\ 1 \in DOMAIN users
            /\ Passed(q, "authenticateToken")
            /\ q.user[1].userId = Num(2)

----------------------------------------------------------------------------
(* Properties of authenticateApiKey (SpecApiKey) *)

\* the cache entry under the request's key, and the row its writer had read
Entry(q) == redis[q.cacheKey]

HasEntry(q) == q.cacheKey \in DOMAIN redis /\ redis[q.cacheKey].src # None

StoreUnchanged(q) ==
    \E id \in DOMAIN users : SelectIdentity(users[id]) = Entry(q).src[1]

\* C6: a cold authenticateApiKey call (empty cache, row read from the store)
\* and a warm call served from the entry the cold call wrote resolve the same
\* {userId, email, username, apiKey, rateLimitPerHour}, the row being unchanged.
C6_WarmEqualsCold ==
    \A r \in Slots :
        LET q == req[r]
        IN  /\ (/\ q.pc = "done"
                /\ Did(q, "authenticateApiKey", "store_hit")
                /\ Passed(q, "authenticateApiKey")
                /\ HasEntry(q)) =>
                   q.user = Some(Identity(Entry(q).src[1]))
            /\ (/\ q.pc = "done"
                /\ Did(q, "authenticateApiKey", "cache_hit")
                /\ HasEntry(q)
                /\ StoreUnchanged(q)) =>
                   /\ Passed(q, "authenticateApiKey")
                   /\ q.res = <<>>
                   /\ q.user = Some(Identity(Entry(q).src[1]))

\* a warm call resolves the account with its three-digit quota
C6_Witness ==
    \E r \in Slots :
        LET q == req[r]
        IN  /\ q.pc = "done"
            /\ Did(q, "authenticateApiKey", "cache_hit")
            /\ ~Did(q, "authenticateApiKey", "queried")
            /\ HasEntry(q)
            /\ StoreUnchanged(q)
            /\ q.user = Resolved(1)
            /\ q.user[1].rateLimitPerHour = Num(RegisterRateLimit)

\* C9: when the store lookup succeeds and the write-back to the cache fails,
\* the request is still authenticated: req.user is set, next() is called and
\* no error response is sent.
C9_WriteBackBestEffort ==
    \A r \in Slots :
        LET q == req[r]
        IN  (/\ q.pc = "done"
             /\ Did(q, "authenticateApiKey", "store_hit")
             /\ Did(q, "authenticateApiKey", "set_fail")) =>
                /\ q.user # None
                /\ Passed(q, "authenticateApiKey")
                /\ q.res = <<>>

----------------------------------------------------------------------------
(* Properties of optionalAuth (SpecOptional) *)

\* the credential the request presented is the one req.user was resolved from
ResolvedFromCredential(q) ==
    IF StartsWithBearer(q.token)
    THEN q.token \in Tokens /\ ~Expired(q) /\ q.user[1].userId = Num(q.token.userId)
    ELSE ~Falsy(q.apiKey) /\ q.user[1].apiKey = q.apiKey

\* C11: optionalAuth never rejects: whatever the headers and whatever the
\* lookup does, no response is sent and next() is called once; req.user is
\* set exactly when the presented credential matched a row of the users table.
C11_OptionalNeverRejects ==
    \A r \in Slots :
        LET q == req[r]
        IN  /\ q.res = <<>>
            /\ q.pc = "done" =>
                  /\ q.nexts = <<"optionalAuth">>
                  /\ q.handled
                  /\ q.user # None <=> Did(q, "optionalAuth", "row_exists")
                  /\ q.user # None => ResolvedFromCredential(q)

\* a request whose lookup failed went on without an identity
C11_Witness ==
    \E r \in Slots :
        LET q == req[r]
        IN  /\ q.pc = "done"
            /\ Did(q, "optionalAuth", "query_fail")
            /\ q.token \in Tokens
            /\ q.user = None
            /\ q.handled

\* C12: a request with both headers whose token resolves no identity is tried
\* with its API key next: an invalid token and the key of an existing account
\* end with that account attached.
C12_TokenThenApiKey ==
    \A r \in Slots :
        LET q == req[r]
        IN  (/\ q.pc = "done"
             /\ q.nexts = <<"optionalAuth">>
             /\ StartsWithBearer(q.token)
             /\ BadToken(q)
             /\ \E id \in DOMAIN users : users[id].api_key = q.apiKey) =>
                /\ q.user # None
                /\ q.user[1].apiKey = q.apiKey

----------------------------------------------------------------------------
(* Properties of the API-key path while the row changes (SpecStale) *)

\* the account req.user names
AccountOf(q) == q.user[1].userId[2]

\* the row of id was last written before the request entered its middleware
SettledBefore(q, id) == users[id].updated_at < q.at

\* the request presents a key that was replaced before it entered
OldKey(q) ==
    \E id \in DOMAIN users :
        /\ q.apiKey \in KeysSoFar(id)
        /\ q.apiKey # users[id].api_key
        /\ SettledBefore(q, id)

\* C13: once POST /api-key/regenerate replaced a key, authenticateApiKey
\* answers 401 to the old key, while tokens issued before still authenticate
\* through authenticateToken as long as they have not expired.
C13_RotationInvalidatesOldKey ==
    \A r \in Slots :
        LET q == req[r]
        IN  /\ (q.pc = "done" /\ OldKey(q)) =>
                   /\ Answered(q, 401, <<"Invalid API key">>)
                   /\ ~Passed(q, "authenticateApiKey")
            /\ (/\ q.pc = "done"
                /\ q.token \in Tokens
                /\ ~Expired(q)
                /\ Did(q, "authenticateToken", "row_exists")) =>
                   /\ Passed(q, "authenticateToken")
                   /\ q.user[1].userId = Num(q.token.userId)

\* C14: authenticateApiKey gives an identity that differs from the account's
\* row for at most IdentityTtl seconds after the row changed: a request that
\* enters later than that is given the identity of the row.
C14_StalenessBounded ==
    \A r \in Slots :
        LET q == req[r]
        IN  (/\ q.pc = "done"
             /\ Passed(q, "authenticateApiKey")
             /\ AccountOf(q) \in DOMAIN users
             /\ q.at - users[AccountOf(q)].updated_at > IdentityTtl) =>
                q.user = Resolved(AccountOf(q))

\* C15: authenticateApiKey never calls next() for a key whose account is
\* inactive, whether the identity comes from the store or from the cache.
C15_InactiveKeyRejected ==
    \A r \in Slots :
        LET q == req[r]
        IN  /\ Did(q, "authenticateApiKey", "inactive_row") =>
                   ~Passed(q, "authenticateApiKey")
            /\ (/\ q.pc = "done"
                /\ Passed(q, "authenticateApiKey")
                /\ AccountOf(q) \in DOMAIN users
                /\ SettledBefore(q, AccountOf(q))) =>
                   users[AccountOf(q)].is_active

----------------------------------------------------------------------------
(* Properties of the three middlewares at their boundary (SpecAuth) *)

Verifiers == {"authenticateToken", "authenticateApiKey"}

\* C16: a failed query of the users table in authenticateToken or
\* authenticateApiKey is answered 500 and next() is not called; a request
\* answered 401 is not passed on either; next() is called only with req.user
\* set from a row of the table or from a parsed cache entry.
C16_StoreFailureIs500 ==
    \A r \in Slots :
        LET q == req[r]
        IN  /\ \A mw \in Verifiers :
                   Did(q, mw, "query_fail") =>
                       /\ q.pc = "done"
                       /\ Answered(q, 500, <<"Authentication failed">>)
                       /\ q.nexts = <<>>
                       /\ ~q.handled
            /\ (Len(q.res) > 0 /\ q.res[1].status = 401) =>
                   q.nexts = <<>> /\ ~q.handled
            /\ \A mw \in Verifiers :
                   Passed(q, mw) =>
                       /\ q.user # None
                       /\ q.res = <<>>
                       /\ \/ Did(q, mw, "row_exists")
                          \/ Did(q, "authenticateApiKey", "cache_hit")

\* the lookup of an API key failed after a cache miss
C16_Witness ==
    \E r \in Slots :
        LET q == req[r]
        IN  /\ Did(q, "authenticateApiKey", "query_fail")
            /\ q.apiKey = users[1].api_key
            /\ Answered(q, 500, <<"Authentication failed">>)
            /\ q.user = None

\* the request ended in a middleware that found no credential
MissingCredential(q) ==
    /\ q.pc = "done"
    /\ \/ q.mw = "authenticateToken" /\ q.token.form = "absent"
       \/ q.mw = "authenticateApiKey" /\ Falsy(q.apiKey)
       \/ q.mw = "userRateLimit" /\ q.user = None

RequiredMessage(q) ==
    CASE q.mw = "authenticateToken" -> <<"Access token required">>
      [] q.mw = "authenticateApiKey" -> <<"API key required">>
      [] OTHER -> <<"Authentication required">>

\* C17: a request without the credential its middleware requires is answered
\* 401 at once: nothing is passed on, logged, looked up or cached, and the step
\* that answers it leaves the users table, the audit records, the cache and
\* its connection as they were.
C17_MissingCredentialFrame ==
    /\ [](\A r \in Slots :
             MissingCredential(req[r]) =>
                 /\ Answered(req[r], 401, RequiredMessage(req[r]))
                 /\ req[r].nexts = <<>>
                 /\ ~req[r].handled
                 /\ req[r].ev = {}
                 /\ req[r].logs = 0
                 /\ req[r].cacheKey = <<>>
                 /\ req[r].nth = 0)
    /\ [][\A r \in Slots :
             (req'[r] # req[r] /\ MissingCredential(req'[r])) =>
                 /\ req[r].pc \in {"idle", "done"}
                 /\ UNCHANGED <<users, audit, issued, redis, client, isConnected, database,
                                seen, dirty>>]_vars

\* with an identity cached, a request without req.user reached userRateLimit
C17_Witness ==
    \E r \in Slots :
        /\ MissingCredential(req[r])
        /\ req[r].mw = "userRateLimit"
        /\ Answered(req[r], 401, <<"Authentication required">>)
        /\ ApiKeyKey(Str(ApiKeys[1])) \in DOMAIN redis

----------------------------------------------------------------------------
(* Properties of POST /execute/:toolName (SpecExecute) *)

InStage(q, mw) == q.mw = mw /\ q.pc # "idle"

AuditIssued(q) ==
    Did(q, "userRateLimit", "audited") \/ Did(q, "userRateLimit", "audit_fail")

\* C18: the stages run in the order identity, quota, audit, handler: the
\* quota stage starts only with an identity resolved by authenticateApiKey, the
\* audit INSERT only after the counter was written, the handler only after
\* userRateLimit passed the request on; a request answered 401 or 500 by
\* authenticateApiKey never reaches the quota stage, and one answered 429 has
\* no counter write, no audit INSERT and no handler; the answering step leaves
\* the counters and the audit records as they were.
C18_StageOrder ==
    /\ [](\A r \in Slots :
             LET q == req[r]
             IN  /\ (InStage(q, "userRateLimit") \/ q.nth > 0) =>
                        /\ q.nexts[1] = "authenticateApiKey"
                        /\ q.user # None
                        /\ \/ Did(q, "authenticateApiKey", "row_exists")
                           \/ Did(q, "authenticateApiKey", "cache_hit")
                 /\ AuditIssued(q) => q.cont = "rl_audited"
                 /\ q.handled =>
                        /\ q.nexts = <<"authenticateApiKey", "userRateLimit">>
                        /\ q.res = <<>>
                        /\ AuditIssued(q) \/ CacheFailed(q)
                 /\ (InStage(q, "authenticateApiKey") /\ q.res # <<>>) =>
                        /\ q.pc = "done"
                        /\ Len(q.res) = 1
                        /\ q.res[1].status \in {401, 500}
                        /\ q.nexts = <<>>
                        /\ q.nth = 0
                        /\ ~AuditIssued(q)
                        /\ ~q.handled
                 /\ (InStage(q, "userRateLimit") /\ q.res # <<>>) =>
                        /\ q.pc = "done"
                        /\ Len(q.res) = 1
                        /\ q.res[1].status = 429
                        /\ q.nexts = <<"authenticateApiKey">>
                        /\ q.cont = "rl_count"
                        /\ ~AuditIssued(q)
                        /\ ~q.handled)
    /\ [][\A r \in Slots :
             Len(req'[r].res) > Len(req[r].res) => UNCHANGED <<audit, redis>>]_vars

\* a request served from the identity cache was counted, audited and handled
C18_Witness ==
    \E r \in Slots :
        LET q == req[r]
        IN  /\ q.handled
            /\ Did(q, "authenticateApiKey", "cache_hit")
            /\ Did(q, "userRateLimit", "audited")
            /\ q.nexts = <<"authenticateApiKey", "userRateLimit">>
            /\ StoredCounter(q) = Digits(q.currentCount + 1)

----------------------------------------------------------------------------
(* Logging and auditing of admitted requests (SpecQuota) *)

\* C19: a request admitted although the cache failed has that failure logged
\* exactly once, counting the logger.error calls of CacheService and of
\* userRateLimit.
C19_FailOpenLoggedOnce ==
    \A r \in Slots :
        LET q == req[r]
        IN  (Finished(q) /\ CacheFailed(q) /\ Admitted(q)) => q.logs = 1

\* C20: every request userRateLimit calls next() for has had its
\* 'api_request' audit INSERT issued before, the fail-open path included.
C20_AuditBeforeNext ==
    \A r \in Slots :
        LET q == req[r]
        IN  (q.nth > 0 /\ Passed(q, "userRateLimit")) => AuditIssued(q)

----------------------------------------------------------------------------
(* Properties of the two singleton connections (SpecLifecycle) *)

QueryFailed(q) ==
    \E mw \in {"authenticateApiKey", "userRateLimit"} :
        Did(q, mw, "query_fail") \/ Did(q, mw, "audit_fail")

\* C21: a database.query, cache.get or cache.set that finds its singleton
\* torn down, or never connected, establishes the connection and is carried
\* out; a call that finds it connected leaves it as it is.
C21_ReconnectOnDemand ==
    [][\A r \in Slots :
          /\ (req[r].pc = "db" /\ req'[r] # req[r]) =>
                 /\ database' = DatabaseConnected
                 /\ NotConnected => QueryFailed(req'[r]) = QueryFailed(req[r])
          /\ (req[r].pc = "cache_call" /\ req'[r] # req[r]) =>
                 IF client # "null" /\ isConnected
                 THEN req'[r].pc = "cache_cmd" /\ UNCHANGED <<client, isConnected>>
                 ELSE req'[r].pc = "cache_connect" /\ client' = "client"
          /\ (req[r].pc = "cache_connect" /\ req'[r] # req[r]) =>
                 /\ req'[r].pc = "cache_cmd"
                 /\ client' = "client" /\ isConnected'
                 /\ CacheFailed(req'[r]) = CacheFailed(req[r])]_vars

----------------------------------------------------------------------------
(* The counter under overlapping requests (SpecConcurrent) *)

\* every concurrent request has finished, each read hourlyQuota - 1 and wrote
\* its counter without a cache failure
AllReadLast ==
    \A r \in Slots :
        /\ req[r].pc = "done" /\ req[r].bucket = FirstBucket
        /\ req[r].currentCount = InitialQuota - 1
        /\ ~CacheFailed(req[r])

FirstCounter == RateLimitKey(Num(1), 0)

\* the stored counter of the first bucket as a number, 0 when absent
StoredCount ==
    IF FirstCounter \in DOMAIN redis THEN ParseInt(redis[FirstCounter].val) ELSE 0

\* C22 as stated: when the concurrent requests of a bucket all read
\* hourlyQuota - 1, all are admitted and the stored counter ends above
\* hourlyQuota, by the number of overlapping requests minus one.
C22_CounterOvershoots ==
    AllReadLast =>
        /\ \A r \in Slots : Admitted(req[r])
        /\ StoredCount = InitialQuota + NumSlots - 1

\* C22 amended: when the concurrent requests of a bucket all read
\* hourlyQuota - 1, all are admitted and each writes hourlyQuota: the stored
\* counter ends at hourlyQuota, while the admissions of the bucket exceed
\* hourlyQuota by the number of overlapping requests minus one.
C22_LostUpdate ==
    AllReadLast =>
        /\ \A r \in Slots : Admitted(req[r])
        /\ StoredCount = InitialQuota
        /\ (InitialQuota - 1) + AdmissionsIn(FirstBucket) = InitialQuota + NumSlots - 1

\* the overlapping requests all read the last free count and were audited
C22_Witness ==
    /\ AllReadLast
    /\ InitialQuota = MaxQuota
    /\ StoredCount = MaxQuota
    /\ \A r \in Slots : Did(req[r], "userRateLimit", "audited") /\ req[r].handled

\* the request passed the test currentCount >= rateLimitPerHour, or was
\* passed on by the catch block
AdmitDecided(q) ==
    /\ q.nth > 0
    /\ q.cont \in {"rl_written", "rl_audited"} \/ Passed(q, "userRateLimit")

\* the counter write of the request was carried out
Wrote(q) == q.nth > 0 /\ q.cont = "rl_audited"

\* requests admitted to the first bucket, the earlier ones included
AdmittedSoFar ==
    (InitialQuota - 1) + Cardinality({r \in Slots : AdmitDecided(req[r])})

WritePending(q) == q.mw = "userRateLimit" /\ q.op.kind = "set"

\* C24: every value userRateLimit writes is the value it read plus one and is
\* at most the hourlyQuota it compared with; with the quota of the account
\* unchanged, every stored counter is at most hourlyQuota in every reachable
\* state, under every interleaving.
C24_WriteWithinQuota ==
    /\ \A r \in Slots :
           WritePending(req[r]) =>
               /\ req[r].op.key = req[r].cacheKey
               /\ req[r].op.val = NumberToString(req[r].currentCount + 1)
               /\ req[r].limit = Num(InitialQuota)
               /\ req[r].currentCount + 1 <= req[r].limit[2]
    /\ \A k \in DOMAIN redis : ParseInt(redis[k].val) \in 1..InitialQuota

\* one request wrote hourlyQuota and an overlapping one, reading it, was
\* answered 429
C24_Witness ==
    \E r1, r2 \in Slots :
        /\ Wrote(req[r1])
        /\ req[r1].currentCount = InitialQuota - 1
        /\ Rejected429(req[r2])
        /\ req[r2].currentCount = InitialQuota
        /\ InitialQuota = MaxQuota
        /\ StoredCount = MaxQuota

----------------------------------------------------------------------------
(* The rejected request (SpecQuota) *)

\* the request is in userRateLimit and has not passed the test of its count
BeforeDecision(q) ==
    q.mw = "userRateLimit" /\ q.pc # "idle" /\ q.nth > 0 /\ q.cont = "rl_count"

TooManyRequests(q) == q.res # <<>> /\ q.res[1].status = 429

\* `Rate limit exceeded. Maximum ${rateLimitPerHour} requests per hour.`
ExceededMessage(limit) ==
    <<"Rate limit exceeded. Maximum">> \o TemplateString(limit)
        \o <<"requests per hour.">>

\* C25: a request rejected because its count reached hourlyQuota is answered
\* 429 with the configured limit and retryAfter 3600; it is not passed on and
\* no audit INSERT is issued for it; no step of it changes a counter, an
\* expiry, or the audit records.
C25_RejectionChangesNothing ==
    /\ [](\A r \in Slots :
             LET q == req[r]
             IN  TooManyRequests(q) =>
                     /\ BeforeDecision(q) /\ q.pc = "done"
                     /\ Rejected429(q)
                     /\ q.res[1].message = ExceededMessage(q.user[1].rateLimitPerHour)
                     /\ q.currentCount >= q.user[1].rateLimitPerHour[2]
                     /\ ~AuditIssued(q))
    /\ [][\A r \in Slots :
             (req'[r] # req[r] /\ BeforeDecision(req'[r])) =>
                 UNCHANGED <<redis, audit, users>>]_vars

\* half an hour after the quota was used up a request is rejected and the
\* counter still expires an hour after its last write
C25_Witness ==
    \E r \in Slots :
        LET q == req[r]
        IN  /\ TooManyRequests(q)
            /\ q.at = SecondsPerHour \div 2
            /\ QuotaOf(q) = MaxQuota
            /\ q.cacheKey \in DOMAIN redis
            /\ redis[q.cacheKey] =
                   [val |-> Digits(MaxQuota), exp |-> CounterTtl, src |-> <<>>]

----------------------------------------------------------------------------
(* The unparseable cache value (SpecCorrupt) *)

\* nothing but the parse failed: the store answered and the cache took the
\* write-back
ParseFailedAlone(q) ==
    /\ Did(q, "authenticateApiKey", "parse_error")
    /\ ~Did(q, "authenticateApiKey", "query_fail")
    /\ ~Did(q, "authenticateApiKey", "set_fail")

\* C26: a cached value that fails to parse is treated like a miss: the users
\* table is queried by API key; no row gives 401 "Invalid API key"; a row gives
\* its identity and next(), and the write-back replaces the bad value with the
\* JSON text of the row; the parse failure by itself never gives a 500.
C26_ParseFailureIsMiss ==
    /\ [](\A r \in Slots :
             LET q == req[r]
             IN  /\ Did(q, "authenticateApiKey", "parse_error") =>
                        /\ q.op.sql = "user_by_key" \/ Did(q, "authenticateApiKey", "queried")
                           \/ Did(q, "authenticateApiKey", "query_fail")
                        /\ ~Did(q, "authenticateApiKey", "cache_hit")
                 /\ (q.pc = "done" /\ ParseFailedAlone(q)) =>
                        IF Did(q, "authenticateApiKey", "row_exists")
                        THEN /\ q.res = <<>>
                             /\ Passed(q, "authenticateApiKey")
                             /\ q.user = Some(Identity(q.userLocal[1]))
                             /\ q.user[1].apiKey = q.apiKey
                        ELSE /\ Answered(q, 401, <<"Invalid API key">>)
                             /\ q.nexts = <<>>)
    /\ [][\A r \in Slots :
             (/\ req'[r] # req[r] /\ redis' # redis
              /\ Did(req[r], "authenticateApiKey", "parse_error")) =>
                 LET written == redis'[req[r].cacheKey].val
                 IN  /\ JsonParse(written).ok
                     /\ JsonParse(written).obj = req[r].userLocal[1]
                     /\ redis[req[r].cacheKey].val # written]_vars

\* a cut-off value under the key of the account was replaced by the row
C26_Witness ==
    \E r \in Slots :
        LET q == req[r]
        IN  /\ q.pc = "done"
            /\ ParseFailedAlone(q)
            /\ 1 \in DOMAIN users
            /\ q.user = Resolved(1)
            /\ q.cacheKey \in DOMAIN redis
            /\ redis[q.cacheKey].src = Some(SelectIdentity(users[1]))
            /\ redis[q.cacheKey].exp = IdentityTtl

----------------------------------------------------------------------------
(* The session-token path and the cache (SpecAuth) *)

\* the request is in authenticateToken or was passed on by it
OnTokenPath(q) == q.mw = "authenticateToken" \/ q.nexts = <<"authenticateToken">>

CachePcs == {"cache_call", "cache_connect", "cache_cmd"}

Verifies(q) == q.token.form = "jwt" /\ q.token.sig = "valid" /\ ~Expired(q)

\* C27: authenticateToken makes no cache call on any path: a request on the
\* token path never waits on the cache, and its steps leave Redis and the
\* CacheService as they were; a request whose token verifies issues one lookup
\* by the id in the token, and the step that answers the lookup ends the
\* middleware.
C27_TokenPathSkipsCache ==
    /\ [](\A r \in Slots :
             LET q == req[r]
             IN  OnTokenPath(q) =>
                     /\ q.pc \notin CachePcs
                     /\ q.op.kind \notin {"get", "set"}
                     /\ q.cacheKey = <<>>
                     /\ ~CacheFailed(q)
                     /\ ~Did(q, "authenticateToken", "cache_hit")
                     /\ Verifies(q) =>
                            \/ /\ q.pc = "db"
                               /\ q.op.sql = "user_by_id"
                               /\ q.op.param = Num(q.token.userId)
                            \/ /\ q.pc = "done"
                               /\ Did(q, "authenticateToken", "queried")
                                  \/ Did(q, "authenticateToken", "query_fail")
                     /\ ~Verifies(q) =>
                            /\ q.pc = "done"
                            /\ ~Did(q, "authenticateToken", "queried")
                            /\ ~Did(q, "authenticateToken", "query_fail"))
    /\ [][\A r \in Slots :
             (req'[r] # req[r] /\ OnTokenPath(req'[r])) =>
                 /\ UNCHANGED <<redis, client, isConnected>>
                 /\ req[r].pc = "db" => req'[r].pc = "done"]_vars

\* a token was resolved from the users table with the CacheService never
\* connected
C27_Witness ==
    \E r \in Slots :
        LET q == req[r]
        IN  /\ q.pc = "done"
            /\ q.nexts = <<"authenticateToken">>
            /\ q.handled
            /\ Did(q, "authenticateToken", "queried")
            /\ client = "null"
            /\ redis = [k \in {} |-> 0]

\* what the answer that carried the token said about the account
IssuedWith(token) == {i.user : i \in {j \in issued : j.token = token}}

\* C28: the identity authenticateToken attaches is the row of the users table
\* at the time of the lookup, not what was known when the token was issued:
\* after PUT /rate-limit or POST /api-key/regenerate the next call with an
\* older token resolves the new rateLimitPerHour and apiKey.
C28_TokenReadsCurrentRow ==
    [][\A r \in Slots :
          (/\ req[r].mw = "authenticateToken" /\ req[r].pc = "db"
           /\ req'[r] # req[r]
           /\ Passed(req'[r], "authenticateToken")) =>
              LET id == req[r].token.userId
              IN  /\ id \in DOMAIN users
                  /\ req'[r].user = Resolved(id)
                  /\ req'[r].user[1].rateLimitPerHour = users[id].rate_limit_per_hour
                  /\ req'[r].user[1].apiKey = users[id].api_key]_vars

\* a token issued at registration resolves the quota and the key the account
\* was given afterwards
C28_Witness ==
    \E r \in Slots :
        LET q == req[r]
        IN  /\ q.pc = "done"
            /\ q.nexts = <<"authenticateToken">>
            /\ q.token \in Tokens
            /\ \A u \in IssuedWith(q.token) :
                   /\ u.rateLimitPerHour = Num(RegisterRateLimit)
                   /\ u.apiKey = Str(ApiKeys[1])
            /\ q.user[1].rateLimitPerHour = Num(MaxQuota)
            /\ q.user[1].apiKey = Str(RegeneratedKeys[1][1])
            /\ ApiKeyKey(Str(ApiKeys[1])) \in DOMAIN redis

----------------------------------------------------------------------------
(* Accounts side by side (SpecTenants) *)

InRateLimit(q) == q.nth > 0

\* the keys that name account id
KeysOf(id) == {k \in DOMAIN redis : k[1] = "rate_limit" /\ k[2] = TemplateString(Num(id))}

\* the count Redis holds under key, "0" when there is none
CountUnder(key) ==
    IF key \in DOMAIN redis /\ Live(redis[key], now) THEN ParseInt(redis[key].val)
    ELSE 0

----------------------------------------------------------------------------
(* The lifetime of a counter (SpecQuota) *)

CounterKeys(store) == {k \in DOMAIN store : k[1] = "rate_limit"}

\* the first second after the hour bucket of key k
BucketEnd(k) == (k[3] + 1) * SecondsPerHour

\* C30: a counter carries an expiry, set at every admit to 3600 seconds after
\* the write and so never before the end of its hour bucket; nothing deletes
\* a counter, which therefore stays present until its bucket has ended.
C30_CounterOutlivesBucket ==
    /\ [](\A k \in CounterKeys(redis) :
             /\ redis[k].exp # NoExpiry
             /\ redis[k].exp >= BucketEnd(k))
    /\ [][/\ \A k \in CounterKeys(redis) :
               now' < BucketEnd(k) => k \in CounterKeys(redis')
          /\ \A r \in Slots :
               (req'[r] # req[r] /\ redis' # redis) =>
                   /\ req[r].cacheKey \in CounterKeys(redis')
                   /\ redis'[req[r].cacheKey].exp = now + 3600]_vars

\* the second admit of the hour, half an hour after the first, moved the
\* expiry of the counter
C30_Witness ==
    \E r \in Slots :
        LET q == req[r]
        IN  /\ Finished(q) /\ Admitted(q)
            /\ q.nth = 2
            /\ q.at = SecondsPerHour \div 2
            /\ q.cacheKey \in CounterKeys(redis)
            /\ redis[q.cacheKey].val = Digits(2)
            /\ redis[q.cacheKey].exp = q.at + CounterTtl
            /\ q.bucket \notin dirty

----------------------------------------------------------------------------
(* The counter under a delayed write (SpecConcurrent) *)

\* C31: within one hour bucket the stored counter never decreases: under any
\* interleaving of concurrent requests, with cache reads that may fail, a
\* write leaves every counter present and at least as large as it was.
C31_CounterNeverDecreases ==
    [][\A k \in CounterKeys(redis) :
          /\ k \in CounterKeys(redis')
          /\ ParseInt(redis'[k].val) >= ParseInt(redis[k].val)]_vars

----------------------------------------------------------------------------
(* One outcome per middleware execution (SpecOutcome) *)

Middlewares ==
    {"authenticateToken", "authenticateApiKey", "userRateLimit", "optionalAuth"}

\* the chain of the request stopped in a middleware that sent one response
StoppedWithResponse(q) ==
    /\ q.mw \in Middlewares
    /\ Len(q.res) = 1
    /\ Occurrences(q.nexts, q.mw) = 0
    /\ ~q.handled

\* every middleware of the chain called next() and the handler ran
PassedToHandler(q) ==
    /\ q.mw = "handler"
    /\ q.res = <<>>
    /\ q.handled

\* C32: every execution of authenticateToken, authenticateApiKey,
\* userRateLimit and optionalAuth ends with exactly one outcome: it sends one
\* response and the chain stops there, or it calls next() once; never both,
\* never neither, on the success, rejection and thrown-error paths alike.
C32_ExactlyOneOutcome ==
    \A r \in Slots :
        LET q == req[r]
        IN  /\ \A mw \in Middlewares : Occurrences(q.nexts, mw) <= 1
            /\ \A i \in 1..Len(q.nexts) : q.nexts[i] \in Middlewares
            /\ Len(q.res) <= 1
            /\ q.res # <<>> => q.pc = "done"
            /\ (q.pc = "done" /\ q.mw # "none") =>
                   StoppedWithResponse(q) \/ PassedToHandler(q)
            /\ q.pc \notin {"done", "idle"} =>
                   q.mw \in Middlewares /\ Occurrences(q.nexts, q.mw) = 0

\* authenticateApiKey passed the request on, the counter write of
\* userRateLimit threw, its catch block called next() and the handler ran
C32_Witness ==
    \E r \in Slots :
        LET q == req[r]
        IN  /\ q.pc = "done"
            /\ q.nexts = <<"authenticateApiKey", "userRateLimit">>
            /\ Did(q, "userRateLimit", "set_fail")
            /\ PassedToHandler(q)

----------------------------------------------------------------------------
(* POST /api-key/regenerate on error (SpecRegenerate) *)

\* the handler of POST /api-key/regenerate has answered
Regenerated(q) == q.mw = "regenerate" /\ q.pc = "done" /\ Len(q.res) = 1

\* the stored key of the account is the one this request generated
StoresNewKey(q) ==
    \E id \in DOMAIN users :
        users[id].id = q.user[1].userId /\ users[id].api_key = q.newApiKey

\* C33: when POST /api-key/regenerate answers 500 the stored API key of the
\* account is the one it had before the request; the stored key is the new
\* one only in executions that answer 200 and return it.
C33_ErrorLeavesKey ==
    \A r \in Slots :
        LET q == req[r]
        IN  /\ (Regenerated(q) /\ q.res[1].status = 500) => ~StoresNewKey(q)
            /\ (q.mw = "regenerate" /\ q.pc = "done" /\ StoresNewKey(q)) =>
                   Regenerated(q) /\ q.res[1].status = 200

----------------------------------------------------------------------------
(* POST /register under concurrency (SpecRegister) *)

\* an account holds the email or the username of the body
Taken(body) ==
    \E id \in DOMAIN users :
        users[id].email = body.email \/ users[id].username = body.username

\* the INSERT INTO users of the request is carried out or refused in this step
InsertRuns(r) ==
    /\ req[r].mw = "register"
    /\ req[r].pc = "db"
    /\ req[r].op.sql = "insert_user"
    /\ req'[r] # req[r]

\* C34: under any interleaving of concurrent POST /register requests no two
\* accounts share an email or a username, and a request whose email or
\* username is taken when its INSERT runs is answered 409 and creates no
\* account.
C34_TakenIsConflict ==
    /\ [](\A i, j \in DOMAIN users :
             i # j => /\ users[i].email # users[j].email
                      /\ users[i].username # users[j].username)
    /\ [][\A r \in Slots :
             (InsertRuns(r) /\ Taken(req[r].body)) =>
                 /\ users' = users
                 /\ Len(req'[r].res) = 1
                 /\ req'[r].res[1].status = 409]_vars

----------------------------------------------------------------------------
(* GET /api/health/detailed (SpecHealth) *)

\* the handler of GET /detailed has answered
DetailedAnswered(q) == q.mw = "detailed" /\ q.pc = "done" /\ Len(q.res) = 1

\* C35: GET /api/health/detailed answers 200 with status 'healthy' only when
\* the database and the cache are both reported 'connected'; when either is
\* reported 'disconnected' the status is 'degraded' and the code is 503.
C35_HealthyOnlyWhenConnected ==
    \A r \in Slots :
        LET q == req[r]
        IN  DetailedAnswered(q) =>
                /\ (q.res[1].status = 200 /\ q.health.status = "healthy") =>
                       /\ q.health.database = "connected"
                       /\ q.health.cache = "connected"
                /\ ("disconnected" \in {q.health.database, q.health.cache}) =>
                       /\ q.health.status = "degraded"
                       /\ q.res[1].status = 503

----------------------------------------------------------------------------
(* Start-up with MCP_MODE=stdio (SpecStdio) *)

\* the processes spawned by process p
ChildrenOf(p) == {c \in DOMAIN procs : procs[c].parent = p}

\* C36: started with MCP_MODE=stdio the server ends its start-up with a
\* bounded number of processes: it spawns exactly one child, and that child
\* spawns no further server process.
C36_OneChild ==
    /\ Len(procs) <= 2
    /\ \A p \in DOMAIN procs :
           /\ Cardinality(ChildrenOf(p)) <= 1
           /\ procs[p].parent # 0 => ChildrenOf(p) = {}
           /\ (procs[p].MCP_MODE = "stdio" /\ procs[p].parent = 0
                 /\ procs[p].pc \in {"listen", "listening"}) =>
                  Cardinality(ChildrenOf(p)) = 1

----------------------------------------------------------------------------
(* CacheService commands (SpecCache) *)

\* request r's pending command is handed to this.client in this step
CommandSent(r) ==
    /\ req[r].pc = "cache_cmd"
    /\ req'[r] # req[r]
    /\ client # "null"

\* C37: a command of get, set, del or exists is sent to the Redis client only
\* when the client's connect() has completed successfully, that is with the
\* client non-null and isConnected true, under any interleaving of the calls
\* with connect and disconnect, concurrent first use and a failed connect
\* included.
C37_CommandsOnlyWhenConnected ==
    [][\A r \in Slots : CommandSent(r) => isConnected]_vars

====
